---- MODULE Spec2Model ----
(***************************************************************************)
(* A model of the ModernRobotics C++ library (mr namespace).               *)
(*                                                                         *)
(* The library is a set of pure numerical functions on Eigen matrices of   *)
(* float.  The model computes every function as the source does, over the  *)
(* exact real numbers of the form                                          *)
(*     (c[-2] h^-2 + c[-1] h^-1 + c[0] + c[1] h + c[2] h^2) / d            *)
(* with h = pi/2, integer coefficients and a positive integer d.  On these *)
(* numbers sin and cos of the multiples of h are exact, so rotations by    *)
(* quarter turns, translations and rational quantities are computed        *)
(* without approximation.  Floating-point rounding is not modelled.        *)
(***************************************************************************)
EXTENDS Integers, Sequences, FiniteSets, TLC

----------------------------------------------------------------------------
(* Numbers: <<c[-2], c[-1], c[0], c[1], c[2], d>>.  d = 0 marks the IEEE    *)
(* non-finite values, d = -1 a real number outside the modelled set.       *)

IAbs(n) == IF n < 0 THEN -n ELSE n

ISgn(n) == IF n < 0 THEN -1 ELSE IF n > 0 THEN 1 ELSE 0

RECURSIVE GCD(_, _)
GCD(a, b) == IF b = 0 THEN a ELSE GCD(b, a % b)

\* the integer square root of n >= 0, by bisection of lo..hi
RECURSIVE ISqrtIn(_, _, _)
ISqrtIn(n, lo, hi) ==
    IF lo >= hi THEN lo
    ELSE LET mid == (lo + hi + 1) \div 2
         IN  IF mid <= n \div mid THEN ISqrtIn(n, mid, hi) ELSE ISqrtIn(n, lo, mid - 1)

ISqrt(n) == IF n < 2 THEN n ELSE ISqrtIn(n, 1, IF n < 46340 THEN n ELSE 46340)

NaN == <<0, 0, 0, 0, 0, 0>>

PosInf == <<0, 0, 1, 0, 0, 0>>

NegInf == <<0, 0, -1, 0, 0, 0>>

Unrep == <<0, 0, 0, 0, 0, -1>>

Zero == <<0, 0, 0, 0, 0, 1>>

One == <<0, 0, 1, 0, 0, 1>>

\* the integer n, the rational n/d, and k quarter turns (k * pi/2)
Num(n) == <<0, 0, n, 0, 0, 1>>

Rat(n, d) == <<0, 0, n, 0, 0, d>>

QuarterTurns(k) == <<0, 0, 0, k, 0, 1>>

IsFinite(x) == x[6] > 0

IsRational(x) == x[1] = 0 /\ x[2] = 0 /\ x[4] = 0 /\ x[5] = 0

IsZero(x) == x[6] > 0 /\ x[3] = 0 /\ IsRational(x)

\* F applied to the value v: v is computed once, before F is entered (TLC
\* binds x to the value of v, not to its expression), whatever F does with it
Let(v, F(_)) == CHOOSE r \in {F(x) : x \in {v}} : TRUE

\* lowest terms, positive denominator
Gcd6(t) ==
    GCD(GCD(GCD(GCD(GCD(IAbs(t[1]), IAbs(t[2])), IAbs(t[3])), IAbs(t[4])), IAbs(t[5])),
        IAbs(t[6]))

DivAll(t, s) == <<t[1] \div s, t[2] \div s, t[3] \div s, t[4] \div s, t[5] \div s, t[6] \div s>>

Lowest(t, g) == IF g = 1 /\ t[6] > 0 THEN t ELSE DivAll(t, IF t[6] < 0 THEN -g ELSE g)

Mk(a, b, c, e, f, d) == Lowest(<<a, b, c, e, f, d>>, Gcd6(<<a, b, c, e, f, d>>))

\* the result of an operation one of whose operands is not a finite number
Bad(x, y) == IF x[6] < 0 \/ y[6] < 0 THEN Unrep ELSE NaN

NNeg(x) == <<-x[1], -x[2], -x[3], -x[4], -x[5], x[6]>>

NAdd(x, y) ==
    IF x[6] = 1 /\ y[6] = 1
    THEN <<x[1] + y[1], x[2] + y[2], x[3] + y[3], x[4] + y[4], x[5] + y[5], 1>>
    ELSE IF x[6] <= 0 \/ y[6] <= 0 THEN Bad(x, y)
    ELSE Mk(x[1] * y[6] + y[1] * x[6], x[2] * y[6] + y[2] * x[6],
            x[3] * y[6] + y[3] * x[6], x[4] * y[6] + y[4] * x[6],
            x[5] * y[6] + y[5] * x[6], x[6] * y[6])

NSub(x, y) == NAdd(x, NNeg(y))

NMul(x, y) ==
    IF x[6] <= 0 \/ y[6] <= 0 THEN Bad(x, y)
    ELSE IF IsRational(x)
    THEN IF x[3] = 0 THEN Zero
         ELSE IF x[3] = 1 /\ x[6] = 1 THEN y
         ELSE Mk(x[3] * y[1], x[3] * y[2], x[3] * y[3], x[3] * y[4], x[3] * y[5],
                 x[6] * y[6])
    ELSE IF IsRational(y)
    THEN IF y[3] = 0 THEN Zero
         ELSE Mk(y[3] * x[1], y[3] * x[2], y[3] * x[3], y[3] * x[4], y[3] * x[5],
                 x[6] * y[6])
    ELSE IF x[1] * y[1] # 0 \/ x[1] * y[2] + x[2] * y[1] # 0
            \/ x[4] * y[5] + x[5] * y[4] # 0 \/ x[5] * y[5] # 0
    THEN Unrep
    ELSE Mk(x[1] * y[3] + x[2] * y[2] + x[3] * y[1],
            x[1] * y[4] + x[2] * y[3] + x[3] * y[2] + x[4] * y[1],
            x[1] * y[5] + x[2] * y[4] + x[3] * y[3] + x[4] * y[2] + x[5] * y[1],
            x[2] * y[5] + x[3] * y[4] + x[4] * y[3] + x[5] * y[2],
            x[3] * y[5] + x[4] * y[4] + x[5] * y[3],
            x[6] * y[6])

\* bounds of h^-2, h^-1, 1, h, h^2 in units of 1/10000
HLo == <<4052, 6366, 10000, 15707, 24674>>

HHi == <<4053, 6367, 10000, 15708, 24675>>

\* the sign of c[1] h^-2 + ... + c[5] h^2 (2: not decided by the bounds of h)
\* a * h^(i-3) lies between TermLo and TermHi, in units of 1/10000
TermLo(a, i) == IF a >= 0 THEN a * HLo[i] ELSE a * HHi[i]

TermHi(a, i) == IF a >= 0 THEN a * HHi[i] ELSE a * HLo[i]

\* the coefficients c / q rounded down and rounded up
Floors(c, q) == <<c[1] \div q, c[2] \div q, c[3] \div q, c[4] \div q, c[5] \div q>>

Ceils(c, q) == <<-((-c[1]) \div q), -((-c[2]) \div q), -((-c[3]) \div q),
                 -((-c[4]) \div q), -((-c[5]) \div q)>>

PolyLo(a) == TermLo(a[1], 1) + TermLo(a[2], 2) + TermLo(a[3], 3) + TermLo(a[4], 4)
             + TermLo(a[5], 5)

PolyHi(a) == TermHi(a[1], 1) + TermHi(a[2], 2) + TermHi(a[3], 3) + TermHi(a[4], 4)
             + TermHi(a[5], 5)

\* the coefficients are scaled down by q so that the bounds stay in range
SignScaled(c, q) ==
    IF PolyLo(Floors(c, q)) > 0 THEN 1 ELSE IF PolyHi(Ceils(c, q)) < 0 THEN -1 ELSE 2

SignPoly(c) ==
    IF c[1] = 0 /\ c[2] = 0 /\ c[4] = 0 /\ c[5] = 0 THEN ISgn(c[3])
    ELSE SignScaled(c, ((IAbs(c[1]) + IAbs(c[2]) + IAbs(c[3]) + IAbs(c[4]) + IAbs(c[5]))
                        \div 10000) + 1)

\* -1, 0, 1 as a / b < c / d, a / b = c / d, a / b > c / d, for b > 0 and d > 0:
\* by the integer parts, and then by the inverses of the fractional parts
RECURSIVE RatCmp(_, _, _, _)
RatCmp(a, b, c, d) ==
    IF a \div b # c \div d THEN (IF a \div b < c \div d THEN -1 ELSE 1)
    ELSE IF a % b = 0 \/ c % d = 0
    THEN (IF a % b = c % d THEN 0 ELSE IF a % b = 0 THEN -1 ELSE 1)
    ELSE RatCmp(d, c % d, b, a % b)

\* bounds of c[1] h^-2 + ... + c[5] h^2 in units of 1/100, for large coefficients
CoarseLo(c) ==
    (IF c[1] >= 0 THEN c[1] * 40 ELSE c[1] * 41) + (IF c[2] >= 0 THEN c[2] * 63 ELSE c[2] * 64)
    + c[3] * 100
    + (IF c[4] >= 0 THEN c[4] * 157 ELSE c[4] * 158)
    + (IF c[5] >= 0 THEN c[5] * 246 ELSE c[5] * 247)

CoarseHi(c) ==
    (IF c[1] >= 0 THEN c[1] * 41 ELSE c[1] * 40) + (IF c[2] >= 0 THEN c[2] * 64 ELSE c[2] * 63)
    + c[3] * 100
    + (IF c[4] >= 0 THEN c[4] * 158 ELSE c[4] * 157)
    + (IF c[5] >= 0 THEN c[5] * 247 ELSE c[5] * 246)

\* -1, 0, 1 as x < y, x = y, x > y, for finite x and y: by the numbers
\* themselves if both are rational, else by bounds of the two that do not
\* overlap, else by the sign of the difference
NCmp(x, y) ==
    IF IsRational(x) /\ IsRational(y) THEN RatCmp(x[3], x[6], y[3], y[6])
    ELSE IF RatCmp(CoarseHi(x), x[6], CoarseLo(y), y[6]) = -1 THEN -1
    ELSE IF RatCmp(CoarseLo(x), x[6], CoarseHi(y), y[6]) = 1 THEN 1
    ELSE IF RatCmp(PolyHi(x), x[6], PolyLo(y), y[6]) = -1 THEN -1
    ELSE IF RatCmp(PolyLo(x), x[6], PolyHi(y), y[6]) = 1 THEN 1
    ELSE SignPoly(<<x[1] * y[6] - y[1] * x[6], x[2] * y[6] - y[2] * x[6],
                         x[3] * y[6] - y[3] * x[6], x[4] * y[6] - y[4] * x[6],
                         x[5] * y[6] - y[5] * x[6]>>)

NSign(x) == SignPoly(x)

NLt(x, y) == IsFinite(x) /\ IsFinite(y) /\ NCmp(x, y) = -1

NLe(x, y) == IsFinite(x) /\ IsFinite(y) /\ NCmp(x, y) \in {-1, 0}

NAbs(x) == IF x[6] > 0 /\ NSign(x) = -1 THEN NNeg(x)
           ELSE IF x[6] = 0 /\ x[3] = -1 THEN PosInf ELSE x

\* the one place of a monomial's coefficient (0: not a monomial)
MonoPos(x) ==
    IF Cardinality({i \in 1..5 : x[i] # 0}) = 1 THEN CHOOSE i \in 1..5 : x[i] # 0 ELSE 0

\* x / y for y a monomial b h^k / e
\* the coefficient of h^(r-3) in x * m / (h^s)
Shifted(x, m, s, r) == IF r + s \in 1..5 THEN x[r + s] * m ELSE 0

\* x / (b h^(q-3) / e)
DivMono(x, b, e, q) ==
    IF q = 0 \/ \E p \in 1..5 : x[p] # 0 /\ p - (q - 3) \notin 1..5 THEN Unrep
    ELSE Mk(Shifted(x, e * ISgn(b), q - 3, 1), Shifted(x, e * ISgn(b), q - 3, 2),
            Shifted(x, e * ISgn(b), q - 3, 3), Shifted(x, e * ISgn(b), q - 3, 4),
            Shifted(x, e * ISgn(b), q - 3, 5), x[6] * IAbs(b))

NDiv(x, y) ==
    IF x[6] > 0 /\ y[6] = 0 /\ y[3] # 0 THEN Zero
    ELSE IF x[6] <= 0 \/ y[6] <= 0 THEN Bad(x, y)
    ELSE IF IsZero(y)
    THEN (IF IsZero(x) THEN NaN ELSE IF NSign(x) = -1 THEN NegInf ELSE PosInf)
    ELSE IF MonoPos(y) = 0 THEN Unrep
    ELSE DivMono(x, y[MonoPos(y)], y[6], MonoPos(y))

\* the square root of a monomial c^2 h^(2k) / e^2
\* c h^(r-3) / e
Mono(c, r, e) == <<IF r = 1 THEN c ELSE 0, IF r = 2 THEN c ELSE 0, IF r = 3 THEN c ELSE 0,
                   IF r = 4 THEN c ELSE 0, IF r = 5 THEN c ELSE 0, e>>

\* the root of a h^(p-3) / d, c and e being the integer roots of a and d
SqrtMono(a, d, p, c, e) ==
    IF p \notin {1, 3, 5} \/ a < 0 \/ c * c # a \/ e * e # d THEN Unrep
    ELSE Mono(c, (p + 3) \div 2, e)

NSqrt(x) ==
    IF x[6] <= 0 THEN x
    ELSE IF IsZero(x) THEN Zero
    ELSE IF MonoPos(x) = 0 THEN Unrep
    ELSE SqrtMono(x[MonoPos(x)], x[6], MonoPos(x),
                  ISqrt(IAbs(x[MonoPos(x)])), ISqrt(x[6]))

\* std::sin and std::cos, exact on the multiples of h = pi/2
IsQuarterTurns(x) == x[6] = 1 /\ x[1] = 0 /\ x[2] = 0 /\ x[3] = 0 /\ x[5] = 0

Sin(x) ==
    IF x[6] <= 0 THEN Bad(x, x)
    ELSE IF ~IsQuarterTurns(x) THEN Unrep
    ELSE Num(<<0, 1, 0, -1>>[(x[4] % 4) + 1])

Cos(x) ==
    IF x[6] <= 0 THEN Bad(x, x)
    ELSE IF ~IsQuarterTurns(x) THEN Unrep
    ELSE Num(<<1, 0, -1, 0>>[(x[4] % 4) + 1])

----------------------------------------------------------------------------
(* Eigen vectors (tuples of numbers) and matrices (tuples of rows).         *)

\* the tuple <<F(1), ..., F(n)>> and the n x m matrix of the F(i, j), built once
\* (a concatenation makes TLC evaluate the entries instead of keeping the rule)
Vec(n, F(_)) == [i \in 1..n |-> F(i)] \o <<>>

Mat(n, m, F(_, _)) == [i \in 1..n |-> ([j \in 1..m |-> F(i, j)] \o <<>>)] \o <<>>

RECURSIVE NSum(_, _)
NSum(f, n) == IF n = 0 THEN Zero ELSE NAdd(NSum(f, n - 1), f[n])

Dot(u, v) == NSum(Vec(Len(u), LAMBDA k : NMul(u[k], v[k])), Len(u))

Rows(A) == Len(A)

Cols(A) == Len(A[1])

Col(A, j) == Vec(Rows(A), LAMBDA i : A[i][j])

Transpose(A) == Mat(Cols(A), Rows(A), LAMBDA i, j : A[j][i])

MatMul(A, B) ==
    Mat(Rows(A), Cols(B), LAMBDA i, j :
        NSum(Vec(Cols(A), LAMBDA k : NMul(A[i][k], B[k][j])), Cols(A)))

MatVec(A, v) == Vec(Rows(A), LAMBDA i : Dot(A[i], v))

MatAdd(A, B) == Mat(Rows(A), Cols(A), LAMBDA i, j : NAdd(A[i][j], B[i][j]))

MatSub(A, B) == Mat(Rows(A), Cols(A), LAMBDA i, j : NSub(A[i][j], B[i][j]))

MatScale(s, A) == Mat(Rows(A), Cols(A), LAMBDA i, j : NMul(s, A[i][j]))

MatDivScalar(A, s) == Mat(Rows(A), Cols(A), LAMBDA i, j : NDiv(A[i][j], s))

VecAdd(u, v) == Vec(Len(u), LAMBDA i : NAdd(u[i], v[i]))

VecScale(s, v) == Vec(Len(v), LAMBDA i : NMul(s, v[i]))

VecDivScalar(v, s) == Vec(Len(v), LAMBDA i : NDiv(v[i], s))

Identity(n) == Mat(n, n, LAMBDA i, j : IF i = j THEN One ELSE Zero)

ZeroMat(n, m) == Mat(n, m, LAMBDA i, j : Zero)

\* all the entries of a matrix, row after row
Flatten(A) == Vec(Rows(A) * Cols(A), LAMBDA k :
                  A[((k - 1) \div Cols(A)) + 1][((k - 1) % Cols(A)) + 1])

\* the largest |v[i]| of a tuple of finite numbers
RECURSIVE MaxAbs(_, _)
MaxAbs(v, n) ==
    IF n = 0 THEN Zero
    ELSE Let(MaxAbs(v, n - 1), LAMBDA m :
         Let(NAbs(v[n]), LAMBDA a : IF NCmp(a, m) = 1 THEN a ELSE m))

\* Eigen's squaredNorm()
SquaredNorm(v) == Dot(v, v)

\* Eigen's norm() of a tuple of entries: sqrt of the sum of the squares.  The
\* value is m * sqrt(q), m the largest magnitude and q the sum of the squared
\* ratios to it: a number when q is the square of a rational, and otherwise the
\* pair <<m, q>>, which stands for the irrational m * sqrt(q).
Norm(v) ==
    IF \E i \in 1..Len(v) : v[i][6] < 0 THEN Unrep
    ELSE IF \E i \in 1..Len(v) : v[i][6] = 0 THEN NaN
    ELSE Let(MaxAbs(v, Len(v)), LAMBDA m :
             IF IsZero(m) THEN Zero
             ELSE Let(SquaredNorm(VecDivScalar(v, m)), LAMBDA q :
                  Let(NSqrt(q), LAMBDA s :
                      IF q[6] < 0 THEN Unrep
                      ELSE IF s[6] > 0 THEN NMul(m, s)
                      ELSE <<m, q>>)))

MatNorm(A) == Norm(Flatten(A))

IsSurd(x) == Len(x) = 2

\* the 3x3 block of A whose first entry is A(r, c) (1-based), and A's column
\* c from row r on, as Eigen's block<3, 3> and block<3, 1>
Block3(A, r, c) == Mat(3, 3, LAMBDA i, j : A[r + i - 1][c + j - 1])

\* Eigen's comma initializer for four blocks: [[A, B], [C, D]]
Blocks(A, B, C, D) ==
    Mat(Rows(A) + Rows(C), Cols(A) + Cols(B), LAMBDA i, j :
        IF i <= Rows(A)
        THEN (IF j <= Cols(A) THEN A[i][j] ELSE B[i][j - Cols(A)])
        ELSE (IF j <= Cols(C) THEN C[i - Rows(A)][j] ELSE D[i - Rows(A)][j - Cols(C)]))

\* a vector as a one-column matrix, and a tuple as a one-row matrix
AsCol(v) == Vec(Len(v), LAMBDA i : <<v[i]>>)

SetCol(A, j, v) == Mat(Rows(A), Cols(A), LAMBDA i, k : IF k = j THEN v[i] ELSE A[i][k])

----------------------------------------------------------------------------
(* The library, src/src/modern_robotics.cpp.                               *)

\* |val| < .000001; a norm m * sqrt(q) that is no number of the model is
\* compared through its square
NearZero(val) ==
    IF IsSurd(val)
    THEN NLt(val[1], Rat(1, 1000000))
         /\ NLt(NMul(SquaredNorm(<<NDiv(val[1], Rat(1, 1000000))>>), val[2]), One)
    ELSE NLt(NAbs(val), Rat(1, 1000000))

\* a faulty VecToso3: the third row has lost its sign
VecToso3Unsigned(omg) ==
    << <<Zero, NNeg(omg[3]), omg[2]>>,
       <<omg[3], Zero, NNeg(omg[1])>>,
       <<omg[2], omg[1], Zero>> >>

VecToso3(omg) ==
    << <<Zero, NNeg(omg[3]), omg[2]>>,
       <<omg[3], Zero, NNeg(omg[1])>>,
       <<NNeg(omg[2]), omg[1], Zero>> >>

so3ToVec(so3mat) == <<so3mat[3][2], so3mat[1][3], so3mat[2][1]>>

\* a faulty ad: the linear block is written to the top right corner
adUpper(V) ==
    LET omgmat == VecToso3(<<V[1], V[2], V[3]>>)
    IN  Blocks(omgmat, VecToso3(<<V[4], V[5], V[6]>>), ZeroMat(3, 3), omgmat)

ad(V) ==
    LET omgmat == VecToso3(<<V[1], V[2], V[3]>>)
    IN  Blocks(omgmat, ZeroMat(3, 3), VecToso3(<<V[4], V[5], V[6]>>), omgmat)

\* Eigen's normalize(): divides by the norm when the squared norm is positive
Normalize(V) ==
    Let(Norm(V), LAMBDA n :
        IF IsSurd(n) THEN Vec(Len(V), LAMBDA i : Unrep)
        ELSE IF IsZero(n) THEN V
        ELSE VecDivScalar(V, n))

AxisAng3(expc3) == Append(Normalize(expc3), Norm(expc3))

MatrixExp3(so3mat) ==
    LET omgtheta == so3ToVec(so3mat)
        m_ret == Identity(3)
    IN  IF NearZero(MatNorm(so3mat)) THEN m_ret
        ELSE Let(AxisAng3(omgtheta)[4], LAMBDA theta :
             Let(MatScale(NDiv(One, theta), so3mat), LAMBDA omgmat :
                 MatAdd(MatAdd(m_ret, MatScale(Sin(theta), omgmat)),
                        MatScale(NSub(One, Cos(theta)), MatMul(omgmat, omgmat)))))

RpToTrans(R, p) == Blocks(R, AsCol(p), <<<<Zero, Zero, Zero>>>>, <<<<One>>>>)

TransToRp(T) == <<Block3(T, 1, 1), <<T[1][4], T[2][4], T[3][4]>> >>

VecTose3(V) ==
    LET exp == <<V[1], V[2], V[3]>>
        linear == <<V[4], V[5], V[6]>>
    IN  Blocks(VecToso3(exp), AsCol(linear), <<<<Zero, Zero, Zero>>>>, <<<<Zero>>>>)

se3ToVec(T) == <<T[3][2], T[1][3], T[2][1], T[1][4], T[2][4], T[3][4]>>

\* a faulty Adjoint: the factors of the lower left block are exchanged
AdjointRp(T) ==
    Let(TransToRp(T), LAMBDA R :
    Let(ZeroMat(3, 3), LAMBDA zeroes :
        Blocks(R[1], zeroes, MatMul(R[1], VecToso3(R[2])), R[1])))

Adjoint(T) ==
    Let(TransToRp(T), LAMBDA R :
    Let(ZeroMat(3, 3), LAMBDA zeroes :
        Blocks(R[1], zeroes, MatMul(VecToso3(R[2]), R[1]), R[1])))

MatrixExp6(se3mat) ==
    LET se3mat_cut == Block3(se3mat, 1, 1)
        omgtheta == so3ToVec(se3mat_cut)
    IN  IF NearZero(Norm(omgtheta))
        THEN Blocks(Identity(3), AsCol(<<se3mat[1][4], se3mat[2][4], se3mat[3][4]>>),
                    <<<<Zero, Zero, Zero>>>>, <<<<One>>>>)
        ELSE Let(AxisAng3(omgtheta)[4], LAMBDA theta :
             Let(MatDivScalar(Block3(se3mat, 1, 1), theta), LAMBDA omgmat :
             Let(MatAdd(MatAdd(MatScale(theta, Identity(3)),
                               MatScale(NSub(One, Cos(theta)), omgmat)),
                        MatScale(NSub(theta, Sin(theta)), MatMul(omgmat, omgmat))),
                 LAMBDA expExpand :
             Let(<<se3mat[1][4], se3mat[2][4], se3mat[3][4]>>, LAMBDA linear :
             Let(VecDivScalar(MatVec(expExpand, linear), theta), LAMBDA GThetaV :
                 Blocks(MatrixExp3(se3mat_cut), AsCol(GThetaV),
                        <<<<Zero, Zero, Zero>>>>, <<<<One>>>>))))))

\* a faulty FKinSpace: the joints are taken from the first to the last
RECURSIVE FKinSpaceUpLoop(_, _, _, _)
FKinSpaceUpLoop(T, Slist, thetaList, i) ==
    IF i <= Len(thetaList)
    THEN FKinSpaceUpLoop(
             MatMul(MatrixExp6(VecTose3(VecScale(thetaList[i], Col(Slist, i)))), T),
             Slist, thetaList, i + 1)
    ELSE T

FKinSpaceFromFirst(M, Slist, thetaList) == FKinSpaceUpLoop(M, Slist, thetaList, 1)

\* the loop of FKinSpace, from joint i (1-based) down to the first
RECURSIVE FKinSpaceLoop(_, _, _, _)
FKinSpaceLoop(T, Slist, thetaList, i) ==
    IF i > 0
    THEN FKinSpaceLoop(
             MatMul(MatrixExp6(VecTose3(VecScale(thetaList[i], Col(Slist, i)))), T),
             Slist, thetaList, i - 1)
    ELSE T

FKinSpace(M, Slist, thetaList) == FKinSpaceLoop(M, Slist, thetaList, Len(thetaList))

\* a faulty FKinBody: the exponentials are multiplied from the left
FKinBodyLeft(M, Blist, thetaList) == FKinSpace(M, Blist, thetaList)

\* a faulty FKinBody: the joints are taken from the last to the first
RECURSIVE FKinBodyDownLoop(_, _, _, _)
FKinBodyDownLoop(T, Blist, thetaList, i) ==
    IF i > 0
    THEN FKinBodyDownLoop(
             MatMul(T, MatrixExp6(VecTose3(VecScale(thetaList[i], Col(Blist, i))))),
             Blist, thetaList, i - 1)
    ELSE T

FKinBodyFromLast(M, Blist, thetaList) == FKinBodyDownLoop(M, Blist, thetaList, Len(thetaList))

\* the loop of FKinBody, from joint i (1-based) up to the last
RECURSIVE FKinBodyLoop(_, _, _, _)
FKinBodyLoop(T, Blist, thetaList, i) ==
    IF i <= Len(thetaList)
    THEN FKinBodyLoop(
             MatMul(T, MatrixExp6(VecTose3(VecScale(thetaList[i], Col(Blist, i))))),
             Blist, thetaList, i + 1)
    ELSE T

FKinBody(M, Blist, thetaList) == FKinBodyLoop(M, Blist, thetaList, 1)

\* a faulty JacobianSpace: T is multiplied from the left
RECURSIVE JacobianSpaceLeftLoop(_, _, _, _, _)
JacobianSpaceLeftLoop(Js, T, Slist, thetaList, i) ==
    IF i <= Len(thetaList)
    THEN Let(VecScale(thetaList[i - 1], Col(Slist, i - 1)), LAMBDA sListTemp :
         Let(MatMul(MatrixExp6(VecTose3(sListTemp)), T), LAMBDA T2 :
             JacobianSpaceLeftLoop(SetCol(Js, i, MatVec(Adjoint(T2), Col(Slist, i))),
                                   T2, Slist, thetaList, i + 1)))
    ELSE Js

JacobianSpaceLeft(Slist, thetaList) ==
    JacobianSpaceLeftLoop(Slist, Identity(4), Slist, thetaList, 2)

\* the loop of JacobianSpace; i is the 1-based column being written
RECURSIVE JacobianSpaceLoop(_, _, _, _, _)
JacobianSpaceLoop(Js, T, Slist, thetaList, i) ==
    IF i <= Len(thetaList)
    THEN Let(VecScale(thetaList[i - 1], Col(Slist, i - 1)), LAMBDA sListTemp :
         Let(MatMul(T, MatrixExp6(VecTose3(sListTemp))), LAMBDA T2 :
             JacobianSpaceLoop(SetCol(Js, i, MatVec(Adjoint(T2), Col(Slist, i))),
                               T2, Slist, thetaList, i + 1)))
    ELSE Js

JacobianSpace(Slist, thetaList) ==
    JacobianSpaceLoop(Slist, Identity(4), Slist, thetaList, 2)

\* a faulty JacobianBody: the angles are not negated
RECURSIVE JacobianBodyNoNegLoop(_, _, _, _, _)
JacobianBodyNoNegLoop(Jb, T, Blist, thetaList, i) ==
    IF i >= 1
    THEN Let(VecScale(thetaList[i + 1], Col(Blist, i + 1)), LAMBDA bListTemp :
         Let(MatMul(T, MatrixExp6(VecTose3(bListTemp))), LAMBDA T2 :
             JacobianBodyNoNegLoop(SetCol(Jb, i, MatVec(Adjoint(T2), Col(Blist, i))),
                                   T2, Blist, thetaList, i - 1)))
    ELSE Jb

JacobianBodyNoNeg(Blist, thetaList) ==
    JacobianBodyNoNegLoop(Blist, Identity(4), Blist, thetaList, Len(thetaList) - 1)

\* the loop of JacobianBody; i is the 1-based column being written
RECURSIVE JacobianBodyLoop(_, _, _, _, _)
JacobianBodyLoop(Jb, T, Blist, thetaList, i) ==
    IF i >= 1
    THEN Let(VecScale(thetaList[i + 1], Col(Blist, i + 1)), LAMBDA bListTemp :
         Let(MatMul(T, MatrixExp6(VecTose3(VecScale(Num(-1), bListTemp)))), LAMBDA T2 :
             JacobianBodyLoop(SetCol(Jb, i, MatVec(Adjoint(T2), Col(Blist, i))),
                              T2, Blist, thetaList, i - 1)))
    ELSE Jb

\* a faulty JacobianBody: the axis of joint i + 1 is scaled by the angle of
\* joint i
RECURSIVE JacobianBodyOwnAngleLoop(_, _, _, _, _)
JacobianBodyOwnAngleLoop(Jb, T, Blist, thetaList, i) ==
    IF i >= 1
    THEN Let(VecScale(thetaList[i], Col(Blist, i + 1)), LAMBDA bListTemp :
         Let(MatMul(T, MatrixExp6(VecTose3(VecScale(Num(-1), bListTemp)))), LAMBDA T2 :
             JacobianBodyOwnAngleLoop(SetCol(Jb, i, MatVec(Adjoint(T2), Col(Blist, i))),
                                      T2, Blist, thetaList, i - 1)))
    ELSE Jb

JacobianBodyOwnAngle(Blist, thetaList) ==
    JacobianBodyOwnAngleLoop(Blist, Identity(4), Blist, thetaList, Len(thetaList) - 1)

JacobianBody(Blist, thetaList) ==
    JacobianBodyLoop(Blist, Identity(4), Blist, thetaList, Len(thetaList) - 1)

\* a faulty TransInv: the translation is not negated
TransInvNoNeg(transform) ==
    Let(TransToRp(transform), LAMBDA rp :
    Let(Transpose(rp[1]), LAMBDA Rt :
    Let(MatVec(Rt, rp[2]), LAMBDA t :
        Blocks(Rt, AsCol(t), <<<<Zero, Zero, Zero>>>>, <<<<One>>>>))))

TransInv(transform) ==
    Let(TransToRp(transform), LAMBDA rp :
    Let(Transpose(rp[1]), LAMBDA Rt :
    Let(VecScale(Num(-1), MatVec(Rt, rp[2])), LAMBDA t :
        Blocks(Rt, AsCol(t), <<<<Zero, Zero, Zero>>>>, <<<<One>>>>))))

\* a faulty AxisAng6: theta is the norm of the angular part, whatever its size
AxisAng6NoFallback(expc6) ==
    Let(Norm(<<expc6[1], expc6[2], expc6[3]>>), LAMBDA theta :
        Append(VecDivScalar(expc6, theta), theta))

AxisAng6(expc6) ==
    Let(Norm(<<expc6[1], expc6[2], expc6[3]>>), LAMBDA theta0 :
    Let(IF NearZero(theta0) THEN Norm(<<expc6[4], expc6[5], expc6[6]>>) ELSE theta0,
        LAMBDA theta : Append(VecDivScalar(expc6, theta), theta)))

\* Eigen's trace() and determinant() (by the first row's cofactors)
Trace(A) == NSum(Vec(Rows(A), LAMBDA i : A[i][i]), Rows(A))

Minor(A, r, c) ==
    Mat(Rows(A) - 1, Cols(A) - 1, LAMBDA i, j :
        A[IF i < r THEN i ELSE i + 1][IF j < c THEN j ELSE j + 1])

RECURSIVE Det(_)
Det(A) ==
    IF Rows(A) = 1 THEN A[1][1]
    ELSE NSum(Vec(Rows(A), LAMBDA j :
                  NMul(IF j % 2 = 1 THEN A[1][j] ELSE NNeg(A[1][j]), Det(Minor(A, 1, j)))),
              Rows(A))

\* the inverse of a square matrix: the transposed cofactors over the determinant
Cofactor(A, i, j) ==
    IF Rows(A) = 1 THEN One
    ELSE IF (i + j) % 2 = 0 THEN Det(Minor(A, i, j)) ELSE NNeg(Det(Minor(A, i, j)))

InverseBy(A, d) == Mat(Rows(A), Rows(A), LAMBDA i, j : NDiv(Cofactor(A, j, i), d))

Inverse(A) == InverseBy(A, Det(A))

\* the columns S[1], S[2], ... of A, side by side
SubCols(A, S) == Mat(Rows(A), Len(S), LAMBDA i, j : A[i][S[j]])

Gram(A) == MatMul(Transpose(A), A)

\* the indices of the columns from j on that do not depend linearly on the
\* columns chosen before them, appended to S
RECURSIVE IndepCols(_, _, _)
IndepCols(A, j, S) ==
    IF j > Cols(A) THEN S
    ELSE IndepCols(A, j + 1,
                   IF IsZero(Det(Gram(SubCols(A, Append(S, j))))) THEN S ELSE Append(S, j))

\* the Moore-Penrose inverse of A = C F, C the independent columns of A:
\* F^T (F F^T)^-1 (C^T C)^-1 C^T
PseudoInverseOf(F, Cp) ==
    MatMul(MatMul(Transpose(F), Inverse(MatMul(F, Transpose(F)))), Cp)

PseudoInverseBy(A, Cp) == PseudoInverseOf(MatMul(Cp, A), Cp)

PseudoInverseCols(A, C) ==
    IF Cols(C) = 0 THEN ZeroMat(Cols(A), Rows(A))
    ELSE PseudoInverseBy(A, MatMul(Inverse(Gram(C)), Transpose(C)))

PseudoInverse(A) == PseudoInverseCols(A, SubCols(A, IndepCols(A, 1, <<>>)))

\* Eigen's bdcSvd(ComputeThinU | ComputeThinV).solve(b): the least-squares
\* solution of A x = b of least norm
BdcSvdSolve(A, b) == MatVec(PseudoInverse(A), b)

\* Eigen's ldlt().solve(b) for an invertible A
LdltSolve(A, b) == MatVec(Inverse(A), b)

\* x > y and x >= y as IEEE compares them
NGt(x, y) ==
    \/ IsFinite(x) /\ IsFinite(y) /\ NCmp(x, y) = 1
    \/ x = PosInf /\ (IsFinite(y) \/ y = NegInf)
    \/ IsFinite(x) /\ y = NegInf

NGe(x, y) == NGt(x, y) \/ (IsFinite(x) /\ IsFinite(y) /\ NCmp(x, y) = 0)
                 \/ (x = y /\ x \in {PosInf, NegInf})

\* std::acos, exact where the angle is a multiple of h; NaN outside [-1, 1]
Acos(x) ==
    IF x[6] <= 0 THEN Bad(x, x)
    ELSE IF x = One THEN Zero
    ELSE IF x = Zero THEN QuarterTurns(1)
    ELSE IF x = Num(-1) THEN QuarterTurns(2)
    ELSE IF NGt(x, One) \/ NGt(Num(-1), x) THEN NaN
    ELSE Unrep

\* std::tan, exact on the multiples of h/2.  At the odd multiples of h the
\* tangent has no value; the floats nearest to them give magnitudes above 10^7,
\* which the model takes as infinite
Tan(x) ==
    IF x[6] <= 0 THEN Bad(x, x)
    ELSE IF x[1] # 0 \/ x[2] # 0 \/ x[3] # 0 \/ x[5] # 0 \/ x[6] \notin {1, 2} THEN Unrep
    ELSE IF x[6] = 2 THEN Num(<<0, 1, 0, -1>>[(x[4] % 4) + 1])
    ELSE IF x[4] % 2 = 0 THEN Zero
    ELSE IF x[4] % 4 = 1 THEN PosInf ELSE NegInf

\* the axis of a rotation by pi whose diagonal entry d = R(k, k) is not -1, from
\* column k of R with 1 added on the diagonal: (1 / sqrt(2 (1 + d))) * col
MatrixLog3Axis(d, col) ==
    VecScale(NDiv(One, NSqrt(NMul(Num(2), NAdd(One, d)))), col)

MatrixLog3Pi(R) ==
    IF ~NearZero(NAdd(One, R[3][3]))
    THEN MatrixLog3Axis(R[3][3], <<R[1][3], R[2][3], NAdd(One, R[3][3])>>)
    ELSE IF ~NearZero(NAdd(One, R[2][2]))
    THEN MatrixLog3Axis(R[2][2], <<R[1][2], NAdd(One, R[2][2]), R[3][2]>>)
    ELSE MatrixLog3Axis(R[1][1], <<NAdd(One, R[1][1]), R[2][1], R[3][1]>>)

MatrixLog3Of(R, acosinput) ==
    IF NGe(acosinput, One) THEN ZeroMat(3, 3)
    ELSE IF NGe(Num(-1), acosinput)
    THEN VecToso3(VecScale(QuarterTurns(2), MatrixLog3Pi(R)))
    ELSE Let(Acos(acosinput), LAMBDA theta :
             MatScale(NDiv(NDiv(theta, Num(2)), Sin(theta)), MatSub(R, Transpose(R))))

\* a faulty MatrixLog3Pi: the axis is taken from the diagonal term of the
\* largest magnitude
MatrixLog3PiLargest(R) ==
    IF NGe(NAbs(NAdd(One, R[3][3])), NAbs(NAdd(One, R[2][2])))
       /\ NGe(NAbs(NAdd(One, R[3][3])), NAbs(NAdd(One, R[1][1])))
    THEN MatrixLog3Axis(R[3][3], <<R[1][3], R[2][3], NAdd(One, R[3][3])>>)
    ELSE IF NGe(NAbs(NAdd(One, R[2][2])), NAbs(NAdd(One, R[1][1])))
    THEN MatrixLog3Axis(R[2][2], <<R[1][2], NAdd(One, R[2][2]), R[3][2]>>)
    ELSE MatrixLog3Axis(R[1][1], <<NAdd(One, R[1][1]), R[2][1], R[3][1]>>)

\* a faulty MatrixLog3: in the half turn's branch the axis is that of
\* MatrixLog3PiLargest
MatrixLog3Largest(R) ==
    Let(NDiv(NSub(Trace(R), One), Num(2)), LAMBDA acosinput :
        IF NGe(Num(-1), acosinput) /\ ~NGe(acosinput, One)
        THEN VecToso3(VecScale(QuarterTurns(2), MatrixLog3PiLargest(R)))
        ELSE MatrixLog3Of(R, acosinput))

\* a faulty MatrixLog3: theta / sin(theta) is not halved
MatrixLog3Doubled(R) ==
    Let(NDiv(NSub(Trace(R), One), Num(2)), LAMBDA acosinput :
        IF NGe(acosinput, One) \/ NGe(Num(-1), acosinput)
        THEN MatrixLog3Of(R, acosinput)
        ELSE Let(Acos(acosinput), LAMBDA theta :
                 MatScale(NDiv(theta, Sin(theta)), MatSub(R, Transpose(R)))))

MatrixLog3(R) == MatrixLog3Of(R, NDiv(NSub(Trace(R), One), Num(2)))

\* the translation part of MatrixLog6 for a rotation by theta # 0:
\* (logExpand1 + logExpand2) * p
MatrixLog6Linear(omgmat, p, theta) ==
    MatVec(MatAdd(MatSub(Identity(3), MatDivScalar(omgmat, Num(2))),
                  MatDivScalar(
                      MatMul(MatScale(NSub(NDiv(One, theta),
                                           NDiv(NDiv(One, Tan(NDiv(theta, Num(2)))), Num(2))),
                                      omgmat),
                             omgmat),
                      theta)),
           p)

MatrixLog6Of(rp, omgmat) ==
    IF NearZero(MatNorm(omgmat))
    THEN Blocks(ZeroMat(3, 3), AsCol(rp[2]), <<<<Zero, Zero, Zero>>>>, <<<<Zero>>>>)
    ELSE Blocks(omgmat,
                AsCol(MatrixLog6Linear(omgmat, rp[2],
                                       Acos(NDiv(NSub(Trace(rp[1]), One), Num(2))))),
                <<<<Zero, Zero, Zero>>>>, <<<<Zero>>>>)

MatrixLog6(T) == Let(TransToRp(T), LAMBDA rp : MatrixLog6Of(rp, MatrixLog3(rp[1])))

\* the bound on the Newton updates of IKinBody and IKinSpace
maxiterations == 20

\* norm() > tol, for a norm that is a number or the pair <<m, q>> of m * sqrt(q)
NormAbove(nrm, tol) ==
    IF IsSurd(nrm)
    THEN NLt(tol, Zero) \/ NGt(NMul(NMul(nrm[1], nrm[1]), nrm[2]), NMul(tol, tol))
    ELSE NGt(nrm, tol)

\* err: angular.norm() > eomg || linear.norm() > ev
IKinErr(V, eomg, ev) ==
    \/ NormAbove(Norm(<<V[1], V[2], V[3]>>), eomg)
    \/ NormAbove(Norm(<<V[4], V[5], V[6]>>), ev)

\* the locals of a loop: thetalist, the count i of updates, the error V at thetalist
IKinState(thetalist, i, V) == [thetalist |-> thetalist, i |-> i, V |-> V]

\* return !err, with thetalist and i as the function leaves them
IKinReturn(st, eomg, ev) ==
    [success |-> ~IKinErr(st.V, eomg, ev), thetalist |-> st.thetalist, i |-> st.i]

\* Vb of IKinBody at thetalist
IKinBodyVb(Blist, M, T, thetalist) ==
    Let(FKinBody(M, Blist, thetalist), LAMBDA Tfk :
    Let(MatMul(TransInv(Tfk), T), LAMBDA Tdiff : se3ToVec(MatrixLog6(Tdiff))))

\* a faulty pass of IKinBody: a do-while loop, whose first pass does not test
\* err
IKinBodyPassDoWhile(Blist, M, T, eomg, ev, maxit, st) ==
    IF (st.i = 0 \/ IKinErr(st.V, eomg, ev)) /\ st.i < maxit
    THEN Let(JacobianBody(Blist, st.thetalist), LAMBDA Jb :
         Let(VecAdd(st.thetalist, BdcSvdSolve(Jb, st.V)), LAMBDA next :
         Let(IKinBodyVb(Blist, M, T, next), LAMBDA Vb : IKinState(next, st.i + 1, Vb))))
    ELSE st

\* one test of the while condition of IKinBody, against the bound maxit, and
\* the body of the loop where the condition holds
IKinBodyPass(Blist, M, T, eomg, ev, maxit, st) ==
    IF IKinErr(st.V, eomg, ev) /\ st.i < maxit
    THEN Let(JacobianBody(Blist, st.thetalist), LAMBDA Jb :
         Let(VecAdd(st.thetalist, BdcSvdSolve(Jb, st.V)), LAMBDA next :
         Let(IKinBodyVb(Blist, M, T, next), LAMBDA Vb : IKinState(next, st.i + 1, Vb))))
    ELSE st

\* n tests of the while condition in a row, from the locals st: the first
\* half of them, then the rest from where the first half arrives
RECURSIVE IKinBodyWhile(_, _, _, _, _, _, _, _)
IKinBodyWhile(Blist, M, T, eomg, ev, maxit, st, n) ==
    IF n = 1
    THEN IKinBodyPass(Blist, M, T, eomg, ev, maxit, st)
    ELSE Let(IKinBodyWhile(Blist, M, T, eomg, ev, maxit, st, n \div 2), LAMBDA mid :
             IKinBodyWhile(Blist, M, T, eomg, ev, maxit, mid, n - (n \div 2)))

\* IKinBody with the loop bounded by maxit: a loop that makes maxit updates
\* tests its condition maxit + 1 times
IKinBodyBy(Blist, M, T, thetalist, eomg, ev, maxit) ==
    Let(IKinBodyVb(Blist, M, T, thetalist), LAMBDA Vb :
    Let(IKinBodyWhile(Blist, M, T, eomg, ev, maxit, IKinState(thetalist, 0, Vb), maxit + 1),
        LAMBDA st : IKinReturn(st, eomg, ev)))

\* a faulty IKinBody: int maxiterations = 21
IKinBodyOneMore(Blist, M, T, thetalist, eomg, ev) ==
    IKinBodyBy(Blist, M, T, thetalist, eomg, ev, maxiterations + 1)

IKinBody(Blist, M, T, thetalist, eomg, ev) ==
    IKinBodyBy(Blist, M, T, thetalist, eomg, ev, maxiterations)

\* Vs of IKinSpace at thetalist
IKinSpaceVs(Slist, M, T, thetalist) ==
    Let(FKinSpace(M, Slist, thetalist), LAMBDA Tfk :
    Let(MatMul(TransInv(Tfk), T), LAMBDA Tdiff :
    Let(se3ToVec(MatrixLog6(Tdiff)), LAMBDA Vb : MatVec(Adjoint(Tfk), Vb))))

IKinSpacePass(Slist, M, T, eomg, ev, st) ==
    IF IKinErr(st.V, eomg, ev) /\ st.i < maxiterations
    THEN Let(JacobianSpace(Slist, st.thetalist), LAMBDA Js :
         Let(VecAdd(st.thetalist, BdcSvdSolve(Js, st.V)), LAMBDA next :
         Let(IKinSpaceVs(Slist, M, T, next), LAMBDA Vs : IKinState(next, st.i + 1, Vs))))
    ELSE st

RECURSIVE IKinSpaceWhile(_, _, _, _, _, _, _)
IKinSpaceWhile(Slist, M, T, eomg, ev, st, n) ==
    IF n = 1
    THEN IKinSpacePass(Slist, M, T, eomg, ev, st)
    ELSE Let(IKinSpaceWhile(Slist, M, T, eomg, ev, st, n \div 2), LAMBDA mid :
             IKinSpaceWhile(Slist, M, T, eomg, ev, mid, n - (n \div 2)))

IKinSpace(Slist, M, T, thetalist, eomg, ev) ==
    Let(IKinSpaceVs(Slist, M, T, thetalist), LAMBDA Vs :
    Let(IKinSpaceWhile(Slist, M, T, eomg, ev, IKinState(thetalist, 0, Vs), maxiterations + 1),
        LAMBDA st : IKinReturn(st, eomg, ev)))

VecSub(u, v) == Vec(Len(u), LAMBDA i : NSub(u[i], v[i]))

\* Eigen::VectorXf::Zero(n)
ZeroVec(n) == Vec(n, LAMBDA i : Zero)

\* the locals of InverseDynamics before the forward pass: Mi, Ai, AdTi with
\* its last entry, Vi, and Vdi with -g in the lower half of its first column
InverseDynamicsLocals(n, g, Mlist) ==
    [Mi   |-> Identity(4),
     Ai   |-> ZeroMat(6, n),
     AdTi |-> Vec(n + 1, LAMBDA k : IF k = n + 1 THEN Adjoint(TransInv(Mlist[n + 1]))
                                    ELSE ZeroMat(6, 6)),
     Vi   |-> ZeroMat(6, n + 1),
     Vdi  |-> Mat(6, n + 1, LAMBDA r, c : IF c = 1 /\ r > 3 THEN NNeg(g[r - 3]) ELSE Zero)]

\* the locals after pass i of the forward loop (joints are numbered from 1)
InverseDynamicsForwardPass(thetalist, dthetalist, ddthetalist, Mlist, Slist, i, st) ==
    Let(MatMul(st.Mi, Mlist[i]), LAMBDA Mi :
    Let(MatVec(Adjoint(TransInv(Mi)), Col(Slist, i)), LAMBDA Aicol :
    Let(Adjoint(MatMul(MatrixExp6(VecTose3(VecScale(NNeg(thetalist[i]), Aicol))),
                       TransInv(Mlist[i]))), LAMBDA AdT :
    Let(VecAdd(MatVec(AdT, Col(st.Vi, i)), VecScale(dthetalist[i], Aicol)), LAMBDA V :
    Let(VecAdd(VecAdd(MatVec(AdT, Col(st.Vdi, i)), VecScale(ddthetalist[i], Aicol)),
               VecScale(dthetalist[i], MatVec(ad(V), Aicol))), LAMBDA Vd :
        [Mi   |-> Mi,
         Ai   |-> SetCol(st.Ai, i, Aicol),
         AdTi |-> [st.AdTi EXCEPT ![i] = AdT],
         Vi   |-> SetCol(st.Vi, i + 1, V),
         Vdi  |-> SetCol(st.Vdi, i + 1, Vd)])))))

\* the locals after the passes 1..i of the forward loop
RECURSIVE InverseDynamicsForward(_, _, _, _, _, _, _)
InverseDynamicsForward(thetalist, dthetalist, ddthetalist, g, Mlist, Slist, i) ==
    IF i = 0 THEN InverseDynamicsLocals(Len(thetalist), g, Mlist)
    ELSE Let(InverseDynamicsForward(thetalist, dthetalist, ddthetalist, g, Mlist, Slist,
                                    i - 1), LAMBDA st :
             InverseDynamicsForwardPass(thetalist, dthetalist, ddthetalist, Mlist, Slist,
                                        i, st))

\* a faulty Fi: AdTi[i + 1] is not transposed
InverseDynamicsFiNoTranspose(Glist, st, i, Fi) ==
    Let(Col(st.Vi, i + 1), LAMBDA V :
        VecSub(VecAdd(MatVec(st.AdTi[i + 1], Fi), MatVec(Glist[i], Col(st.Vdi, i + 1))),
               MatVec(Transpose(ad(V)), MatVec(Glist[i], V))))

\* Fi of pass i of the backward loop, from the Fi of the pass before
InverseDynamicsFi(Glist, st, i, Fi) ==
    Let(Col(st.Vi, i + 1), LAMBDA V :
        VecSub(VecAdd(MatVec(Transpose(st.AdTi[i + 1]), Fi),
                      MatVec(Glist[i], Col(st.Vdi, i + 1))),
               MatVec(Transpose(ad(V)), MatVec(Glist[i], V))))

\* Fi and taulist after the passes n, n-1, ..., i of the backward loop, st
\* being the locals after the forward loop
RECURSIVE InverseDynamicsBackward(_, _, _, _)
InverseDynamicsBackward(Glist, st, Ftip, i) ==
    IF i > Len(Glist) THEN [Fi |-> Ftip, taulist |-> ZeroVec(Len(Glist))]
    ELSE Let(InverseDynamicsBackward(Glist, st, Ftip, i + 1), LAMBDA b :
         Let(InverseDynamicsFi(Glist, st, i, b.Fi), LAMBDA F :
             [Fi |-> F, taulist |-> [b.taulist EXCEPT ![i] = Dot(F, Col(st.Ai, i))]]))

InverseDynamics(thetalist, dthetalist, ddthetalist, g, Ftip, Mlist, Glist, Slist) ==
    Let(InverseDynamicsForward(thetalist, dthetalist, ddthetalist, g, Mlist, Slist,
                               Len(thetalist)), LAMBDA st :
        InverseDynamicsBackward(Glist, st, Ftip, 1).taulist)

\* a faulty GravityForces: thetalist is passed as the joint rates too
GravityForcesWithRates(thetalist, g, Mlist, Glist, Slist) ==
    InverseDynamics(thetalist, thetalist, ZeroVec(Len(thetalist)), g, ZeroVec(6),
                    Mlist, Glist, Slist)

GravityForces(thetalist, g, Mlist, Glist, Slist) ==
    InverseDynamics(thetalist, ZeroVec(Len(thetalist)), ZeroVec(Len(thetalist)), g,
                    ZeroVec(6), Mlist, Glist, Slist)

\* a faulty column of MassMatrix: ddthetalist is not reset between the columns
MassMatrixColKeepOnes(thetalist, Mlist, Glist, Slist, i) ==
    InverseDynamics(thetalist, ZeroVec(Len(thetalist)),
                    Vec(Len(thetalist), LAMBDA k : IF k <= i THEN One ELSE Zero),
                    ZeroVec(3), ZeroVec(6), Mlist, Glist, Slist)

\* column i of MassMatrix: ddthetalist is zero but for ddthetalist(i) = 1
MassMatrixCol(thetalist, Mlist, Glist, Slist, i) ==
    InverseDynamics(thetalist, ZeroVec(Len(thetalist)),
                    Vec(Len(thetalist), LAMBDA k : IF k = i THEN One ELSE Zero),
                    ZeroVec(3), ZeroVec(6), Mlist, Glist, Slist)

\* M after the passes 1..i of the loop of MassMatrix
RECURSIVE MassMatrixLoop(_, _, _, _, _)
MassMatrixLoop(thetalist, Mlist, Glist, Slist, i) ==
    IF i = 0 THEN ZeroMat(Len(thetalist), Len(thetalist))
    ELSE Let(MassMatrixLoop(thetalist, Mlist, Glist, Slist, i - 1), LAMBDA M :
         Let(MassMatrixCol(thetalist, Mlist, Glist, Slist, i), LAMBDA col :
             SetCol(M, i, col)))

MassMatrix(thetalist, Mlist, Glist, Slist) ==
    MassMatrixLoop(thetalist, Mlist, Glist, Slist, Len(thetalist))

\* a faulty trace of MassMatrix: one call of InverseDynamics for every entry
RECURSIVE MassMatrixCallsByEntry(_, _, _, _, _)
MassMatrixCallsByEntry(thetalist, Mlist, Glist, Slist, i) ==
    IF i = 0 THEN <<>>
    ELSE MassMatrixCallsByEntry(thetalist, Mlist, Glist, Slist, i - 1)
         \o Vec(Len(thetalist), LAMBDA k :
                <<thetalist, ZeroVec(Len(thetalist)),
                  Vec(Len(thetalist), LAMBDA j : IF j = i THEN One ELSE Zero),
                  ZeroVec(3), ZeroVec(6), Mlist, Glist, Slist>>)

\* the arguments of the calls of InverseDynamics that the passes 1..i of the
\* loop of MassMatrix make, in order: one call in every pass
RECURSIVE MassMatrixCalls(_, _, _, _, _)
MassMatrixCalls(thetalist, Mlist, Glist, Slist, i) ==
    IF i = 0 THEN <<>>
    ELSE Append(MassMatrixCalls(thetalist, Mlist, Glist, Slist, i - 1),
                <<thetalist, ZeroVec(Len(thetalist)),
                  Vec(Len(thetalist), LAMBDA j : IF j = i THEN One ELSE Zero),
                  ZeroVec(3), ZeroVec(6), Mlist, Glist, Slist>>)

\* a faulty VelQuadraticForces: dthetalist is passed as the accelerations too
VelQuadraticForcesWithAccel(thetalist, dthetalist, Mlist, Glist, Slist) ==
    InverseDynamics(thetalist, dthetalist, dthetalist, ZeroVec(3), ZeroVec(6),
                    Mlist, Glist, Slist)

VelQuadraticForces(thetalist, dthetalist, Mlist, Glist, Slist) ==
    InverseDynamics(thetalist, dthetalist, ZeroVec(Len(thetalist)), ZeroVec(3), ZeroVec(6),
                    Mlist, Glist, Slist)

EndEffectorForces(thetalist, Ftip, Mlist, Glist, Slist) ==
    InverseDynamics(thetalist, ZeroVec(Len(thetalist)), ZeroVec(Len(thetalist)), ZeroVec(3),
                    Ftip, Mlist, Glist, Slist)

\* a faulty ForwardDynamics: the gravity forces are not subtracted
ForwardDynamicsNoGravity(thetalist, dthetalist, taulist, g, Ftip, Mlist, Glist, Slist) ==
    Let(VelQuadraticForces(thetalist, dthetalist, Mlist, Glist, Slist), LAMBDA c :
    Let(EndEffectorForces(thetalist, Ftip, Mlist, Glist, Slist), LAMBDA JTFtip :
    Let(VecSub(VecSub(taulist, c), JTFtip), LAMBDA totalForce :
    Let(MassMatrix(thetalist, Mlist, Glist, Slist), LAMBDA M : LdltSolve(M, totalForce)))))

ForwardDynamics(thetalist, dthetalist, taulist, g, Ftip, Mlist, Glist, Slist) ==
    Let(VelQuadraticForces(thetalist, dthetalist, Mlist, Glist, Slist), LAMBDA c :
    Let(GravityForces(thetalist, g, Mlist, Glist, Slist), LAMBDA grav :
    Let(EndEffectorForces(thetalist, Ftip, Mlist, Glist, Slist), LAMBDA JTFtip :
    Let(VecSub(VecSub(VecSub(taulist, c), grav), JTFtip), LAMBDA totalForce :
    Let(MassMatrix(thetalist, Mlist, Glist, Slist), LAMBDA M :
        LdltSolve(M, totalForce))))))

\* a faulty EulerStep: thetalist moves by the updated dthetalist
EulerStepUpdatedRate(thetalist, dthetalist, ddthetalist, dt) ==
    Let(VecAdd(dthetalist, VecScale(dt, ddthetalist)), LAMBDA dtheta :
    Let(VecAdd(thetalist, VecScale(dt, dtheta)), LAMBDA theta :
        [thetalist |-> theta, dthetalist |-> dtheta, ddthetalist |-> ddthetalist]))

\* EulerStep changes thetalist and dthetalist in place: the result is the
\* three vectors as the call leaves them
EulerStep(thetalist, dthetalist, ddthetalist, dt) ==
    Let(VecAdd(thetalist, VecScale(dt, dthetalist)), LAMBDA theta :
    Let(VecAdd(dthetalist, VecScale(dt, ddthetalist)), LAMBDA dtheta :
        [thetalist |-> theta, dthetalist |-> dtheta, ddthetalist |-> ddthetalist]))

\* std::pow(x, k) for a whole k >= 0
RECURSIVE Pow(_, _)
Pow(x, k) == IF k = 0 THEN One ELSE NMul(Pow(x, k - 1), x)

\* a faulty CubicTimeScaling: the two powers are exchanged
CubicTimeScalingSwapped(Tf, t) ==
    Let(NDiv(NMul(One, t), Tf), LAMBDA timeratio :
        NSub(NMul(Num(3), Pow(timeratio, 3)), NMul(Num(2), Pow(timeratio, 2))))

CubicTimeScaling(Tf, t) ==
    Let(NDiv(NMul(One, t), Tf), LAMBDA timeratio :
        NSub(NMul(Num(3), Pow(timeratio, 2)), NMul(Num(2), Pow(timeratio, 3))))

QuinticTimeScaling(Tf, t) ==
    Let(NDiv(NMul(One, t), Tf), LAMBDA timeratio :
        NAdd(NSub(NMul(Num(10), Pow(timeratio, 3)), NMul(Num(15), Pow(timeratio, 4))),
             NMul(Num(6), Pow(timeratio, 5))))

\* st of pass i (from 0) of a trajectory loop
TrajectoryScaling(Tf, timegap, i, method) ==
    IF method = 3 THEN CubicTimeScaling(Tf, NMul(timegap, Num(i)))
    ELSE QuinticTimeScaling(Tf, NMul(timegap, Num(i)))

\* st * b + (1 - st) * a
Blend(st, a, b) == VecAdd(VecScale(st, b), VecScale(NSub(One, st), a))

\* a faulty JointTrajectory: timegap = Tf / N
JointTrajectoryShortGap(thetastart, thetaend, Tf, N, method) ==
    Let(NDiv(Tf, Num(N)), LAMBDA timegap :
    Let(Vec(N, LAMBDA c : Let(TrajectoryScaling(Tf, timegap, c - 1, method), LAMBDA st :
                              Blend(st, thetastart, thetaend))), LAMBDA cols :
        Transpose(Mat(Len(thetastart), N, LAMBDA r, c : cols[c][r]))))

\* trajT has one column for each pass of the loop; the result is its transpose
JointTrajectory(thetastart, thetaend, Tf, N, method) ==
    Let(NDiv(Tf, Num(N - 1)), LAMBDA timegap :
    Let(Vec(N, LAMBDA c : Let(TrajectoryScaling(Tf, timegap, c - 1, method), LAMBDA st :
                              Blend(st, thetastart, thetaend))), LAMBDA cols :
        Transpose(Mat(Len(thetastart), N, LAMBDA r, c : cols[c][r]))))

\* traj.at(i) of ScrewTrajectory
ScrewTrajectoryAt(Xstart, Xend, st) ==
    Let(MatMul(TransInv(Xstart), Xend), LAMBDA Xrel :
    Let(MatrixLog6(Xrel), LAMBDA Ttemp :
    Let(MatrixExp6(MatScale(st, Ttemp)), LAMBDA E : MatMul(Xstart, E))))

ScrewTrajectory(Xstart, Xend, Tf, N, method) ==
    Let(NDiv(Tf, Num(N - 1)), LAMBDA timegap :
        Vec(N, LAMBDA k : Let(TrajectoryScaling(Tf, timegap, k - 1, method), LAMBDA st :
                              ScrewTrajectoryAt(Xstart, Xend, st))))

\* traj.at(i) of CartesianTrajectory, from Rstart, pstart and Rend, pend
CartesianTrajectoryAt(Rpstart, Rpend, st) ==
    Let(MatMul(Transpose(Rpstart[1]), Rpend[1]), LAMBDA Rrel :
    Let(MatrixLog3(Rrel), LAMBDA so3 :
    Let(MatrixExp3(MatScale(st, so3)), LAMBDA E :
        Blocks(MatMul(Rpstart[1], E), AsCol(Blend(st, Rpstart[2], Rpend[2])),
               <<<<Zero, Zero, Zero>>>>, <<<<One>>>>))))

CartesianTrajectory(Xstart, Xend, Tf, N, method) ==
    Let(NDiv(Tf, Num(N - 1)), LAMBDA timegap :
    Let(TransToRp(Xstart), LAMBDA Rpstart :
    Let(TransToRp(Xend), LAMBDA Rpend :
        Vec(N, LAMBDA k : Let(TrajectoryScaling(Tf, timegap, k - 1, method), LAMBDA st :
                              CartesianTrajectoryAt(Rpstart, Rpend, st))))))

\* the value returned for a matrix that is not near the manifold
Sentinel == Num(1000000000)

\* a faulty DistanceToSO3: a zero determinant passes the test
DistanceToSO3ZeroDet(M) ==
    IF NGe(Det(M), Zero)
    THEN MatNorm(MatSub(MatMul(Transpose(M), M), Identity(3)))
    ELSE Sentinel

DistanceToSO3(M) ==
    IF NGt(Det(M), Zero)
    THEN MatNorm(MatSub(MatMul(Transpose(M), M), Identity(3)))
    ELSE Sentinel

DistanceToSE3(T) ==
    Let(Block3(T, 1, 1), LAMBDA matR :
        IF NGt(Det(matR), Zero)
        THEN MatNorm(MatSub(Blocks(MatMul(Transpose(matR), matR), AsCol(ZeroVec(3)),
                                   <<T[4]>>, <<>>),
                            Identity(4)))
        ELSE Sentinel)

\* std::abs(d) < tol, for d a number or the pair <<m, q>> of m * sqrt(q), m > 0
AbsLess(d, tol) ==
    IF IsSurd(d)
    THEN NGt(tol, Zero) /\ NLt(d[2], SquaredNorm(<<NDiv(tol, d[1])>>))
    ELSE NLt(NAbs(d), tol)

TestIfSO3(M) == AbsLess(DistanceToSO3(M), Rat(1, 1000))

TestIfSE3(T) == AbsLess(DistanceToSE3(T), Rat(1, 1000))

ComputedTorque(thetalist, dthetalist, eint, g, Mlist, Glist, Slist, thetalistd, dthetalistd, ddthetalistd, Kp, Ki, Kd) ==
    Let(VecSub(thetalistd, thetalist), LAMBDA e :
    Let(VecAdd(VecAdd(VecScale(Kp, e), VecScale(Ki, VecAdd(eint, e))),
               VecScale(Kd, VecSub(dthetalistd, dthetalist))), LAMBDA pid :
    Let(MatVec(MassMatrix(thetalist, Mlist, Glist, Slist), pid), LAMBDA tau_feedforward :
    Let(InverseDynamics(thetalist, dthetalist, ddthetalistd, g, ZeroVec(6),
                        Mlist, Glist, Slist), LAMBDA tau_inversedyn :
        VecAdd(tau_feedforward, tau_inversedyn)))))

\* the state of an integration: thetacurrent, dthetacurrent and the last
\* ddthetalist (none before the first pass)
SimState(thetalist, dthetalist) ==
    [thetalist |-> thetalist, dthetalist |-> dthetalist, ddthetalist |-> <<>>]

\* one pass of the inner loop: ForwardDynamics at the current state, then
\* EulerStep by h
ForwardDynamicsStep(st, taulist, g, Ftip, Mlist, Glist, Slist, h) ==
    Let(ForwardDynamics(st.thetalist, st.dthetalist, taulist, g, Ftip, Mlist, Glist, Slist),
        LAMBDA ddthetalist : EulerStep(st.thetalist, st.dthetalist, ddthetalist, h))

\* the inner loop: the state after the passes j = 0..intRes-1
RECURSIVE ForwardDynamicsSteps(_, _, _, _, _, _, _, _, _)
ForwardDynamicsSteps(st, taulist, g, Ftip, Mlist, Glist, Slist, h, intRes) ==
    IF intRes <= 0 THEN st
    ELSE Let(ForwardDynamicsSteps(st, taulist, g, Ftip, Mlist, Glist, Slist, h, intRes - 1),
             LAMBDA prev : ForwardDynamicsStep(prev, taulist, g, Ftip, Mlist, Glist, Slist, h))

\* the states written to the columns 0..i of thetamatT and dthetamatT: the
\* given state, and the state after each pass of the outer loop
RECURSIVE ForwardDynamicsTrajectoryLoop(_, _, _, _, _, _, _, _, _, _, _)
ForwardDynamicsTrajectoryLoop(thetalist, dthetalist, taumat, g, Ftipmat, Mlist, Glist, Slist, h, intRes, i) ==
    IF i = 0 THEN <<SimState(thetalist, dthetalist)>>
    ELSE Let(ForwardDynamicsTrajectoryLoop(thetalist, dthetalist, taumat, g, Ftipmat,
                                           Mlist, Glist, Slist, h, intRes, i - 1),
             LAMBDA sts :
                 Append(sts, ForwardDynamicsSteps(sts[i], taumat[i], g, Ftipmat[i],
                                                  Mlist, Glist, Slist, h, intRes)))

\* ForwardDynamicsTrajectory with the step h of EulerStep
ForwardDynamicsTrajectoryBy(thetalist, dthetalist, taumat, g, Ftipmat, Mlist, Glist, Slist, h, intRes) ==
    Let(ForwardDynamicsTrajectoryLoop(thetalist, dthetalist, taumat, g, Ftipmat,
                                      Mlist, Glist, Slist, h, intRes, Rows(taumat) - 1),
        LAMBDA sts : <<Vec(Rows(taumat), LAMBDA i : sts[i].thetalist),
                       Vec(Rows(taumat), LAMBDA i : sts[i].dthetalist)>>)

\* a faulty ForwardDynamicsTrajectory: EulerStep is given dt
ForwardDynamicsTrajectoryWholeStep(thetalist, dthetalist, taumat, g, Ftipmat, Mlist, Glist, Slist, dt, intRes) ==
    ForwardDynamicsTrajectoryBy(thetalist, dthetalist, taumat, g, Ftipmat, Mlist, Glist,
                                Slist, dt, intRes)

\* the result is thetamat and dthetamat, one row for each row of taumat
ForwardDynamicsTrajectory(thetalist, dthetalist, taumat, g, Ftipmat, Mlist, Glist, Slist, dt, intRes) ==
    ForwardDynamicsTrajectoryBy(thetalist, dthetalist, taumat, g, Ftipmat, Mlist, Glist,
                                Slist, NDiv(NMul(One, dt), Num(intRes)), intRes)

\* the state of the loop of SimulateControl before its first pass
SimulateControlStart(thetalist, dthetalist) ==
    [thetacurrent |-> thetalist, dthetacurrent |-> dthetalist,
     eint |-> ZeroVec(Len(thetalist)), taumat |-> <<>>, thetamat |-> <<>>]

\* a faulty pass of SimulateControl: eint is advanced before the plant
SimulateControlPassEarlyIntegral(lp, g, Ftip, Mlist, Glist, Slist, thetalistd, dthetalistd, ddthetalistd, gtilde, Mtildelist, Gtildelist, Kp, Ki, Kd, dt, intRes) ==
    Let(ComputedTorque(lp.thetacurrent, lp.dthetacurrent, lp.eint, gtilde, Mtildelist,
                       Gtildelist, Slist, thetalistd, dthetalistd, ddthetalistd, Kp, Ki, Kd),
        LAMBDA taulist :
    Let(ForwardDynamicsSteps(SimState(lp.thetacurrent, lp.dthetacurrent), taulist, g, Ftip,
                             Mlist, Glist, Slist, NDiv(dt, Num(intRes)), intRes),
        LAMBDA st :
        [thetacurrent |-> st.thetalist, dthetacurrent |-> st.dthetalist,
         eint |-> VecAdd(lp.eint, VecScale(dt, VecSub(thetalistd, lp.thetacurrent))),
         taumat |-> Append(lp.taumat, taulist),
         thetamat |-> Append(lp.thetamat, st.thetalist)]))

\* one pass of the loop of SimulateControl, for the columns thetalistd,
\* dthetalistd, ddthetalistd and Ftip of the sample: the torque of the
\* controller, the inner loop of the plant, the columns of the results, eint
SimulateControlPass(lp, g, Ftip, Mlist, Glist, Slist, thetalistd, dthetalistd, ddthetalistd, gtilde, Mtildelist, Gtildelist, Kp, Ki, Kd, dt, intRes) ==
    Let(ComputedTorque(lp.thetacurrent, lp.dthetacurrent, lp.eint, gtilde, Mtildelist,
                       Gtildelist, Slist, thetalistd, dthetalistd, ddthetalistd, Kp, Ki, Kd),
        LAMBDA taulist :
    Let(ForwardDynamicsSteps(SimState(lp.thetacurrent, lp.dthetacurrent), taulist, g, Ftip,
                             Mlist, Glist, Slist, NDiv(dt, Num(intRes)), intRes),
        LAMBDA st :
        [thetacurrent |-> st.thetalist, dthetacurrent |-> st.dthetalist,
         eint |-> VecAdd(lp.eint, VecScale(dt, VecSub(thetalistd, st.thetalist))),
         taumat |-> Append(lp.taumat, taulist),
         thetamat |-> Append(lp.thetamat, st.thetalist)]))

\* the state of the loop after the passes for the samples 1..i
RECURSIVE SimulateControlLoop(_, _, _, _, _, _, _, _, _, _, _, _, _, _, _, _, _, _, _)
SimulateControlLoop(thetalist, dthetalist, g, Ftipmat, Mlist, Glist, Slist, thetamatd, dthetamatd, ddthetamatd, gtilde, Mtildelist, Gtildelist, Kp, Ki, Kd, dt, intRes, i) ==
    IF i = 0 THEN SimulateControlStart(thetalist, dthetalist)
    ELSE Let(SimulateControlLoop(thetalist, dthetalist, g, Ftipmat, Mlist, Glist, Slist,
                                 thetamatd, dthetamatd, ddthetamatd, gtilde, Mtildelist,
                                 Gtildelist, Kp, Ki, Kd, dt, intRes, i - 1),
             LAMBDA lp :
                 SimulateControlPass(lp, g, Ftipmat[i], Mlist, Glist, Slist, thetamatd[i],
                                     dthetamatd[i], ddthetamatd[i], gtilde, Mtildelist,
                                     Gtildelist, Kp, Ki, Kd, dt, intRes))

\* the result is taumat and thetamat, one row for each row of thetamatd
SimulateControl(thetalist, dthetalist, g, Ftipmat, Mlist, Glist, Slist, thetamatd, dthetamatd, ddthetamatd, gtilde, Mtildelist, Gtildelist, Kp, Ki, Kd, dt, intRes) ==
    Let(SimulateControlLoop(thetalist, dthetalist, g, Ftipmat, Mlist, Glist, Slist,
                            thetamatd, dthetamatd, ddthetamatd, gtilde, Mtildelist,
                            Gtildelist, Kp, Ki, Kd, dt, intRes, Rows(thetamatd)),
        LAMBDA lp : <<lp.taumat, lp.thetamat>>)

----------------------------------------------------------------------------
(* The callers.  The library keeps no state of its own: a caller picks the  *)
(* arguments of one function, the function runs to its end, and the caller *)
(* takes the result.  fn names the function whose result is in ret ("idle": *)
(* no call), args are the arguments it was given.                          *)

VARIABLES fn, args, ret

vars == <<fn, args, ret>>

\* coordinates range over -MaxCoord..MaxCoord
MaxCoord == 2

\* chains have 1..MaxJoints joints
MaxJoints == 3

\* the angle of a chain's first joint ranges over -1..MaxTurns quarter turns
MaxTurns == 2

Coord == {Num(n) : n \in -MaxCoord..MaxCoord}

Vec3All == {<<x, y, z>> : x \in Coord, y \in Coord, z \in Coord}

\* the vectors along one coordinate axis
AxisVecs(S) == {<<c, Zero, Zero>> : c \in S} \cup {<<Zero, c, Zero>> : c \in S}
                   \cup {<<Zero, Zero, c>> : c \in S}

SparseVec3 == AxisVecs(Coord) \cup {<<Num(1), Num(2), Num(3)>>, <<Num(-1), Num(1), Num(2)>>}

Vec3In == Vec3All \cup {<<Num(1), Num(2), Num(3)>>, <<QuarterTurns(1), Rat(1, 2), Num(-1)>>}

\* the matrices K with K^T = -K
SkewMats == {<< <<Zero, a, b>>, <<NNeg(a), Zero, c>>, <<NNeg(b), NNeg(c), Zero>> >> :
                a \in Coord, b \in Coord, c \in Coord}

TwistIn == {<<w[1], w[2], w[3], v[1], v[2], v[3]>> : w \in SparseVec3, v \in SparseVec3}
               \cup {<<Num(1), Num(2), Num(3), Num(4), Num(5), Num(6)>>}

\* the second twists of a Lie bracket
BracketArgs == {<<w[1], w[2], w[3], Zero, Zero, Zero>> : w \in AxisVecs({One})}
                   \cup {<<Zero, Zero, Zero, v[1], v[2], v[3]>> : v \in AxisVecs({One})}
                   \cup {<<Num(1), Num(2), Num(3), Num(4), Num(5), Num(6)>>,
                         <<Num(-2), Num(1), Num(0), Num(3), Num(-1), Num(1)>>}

\* quarter turns about the coordinate axes, and the rotations they compose to
RotX == << <<One, Zero, Zero>>, <<Zero, Zero, Num(-1)>>, <<Zero, One, Zero>> >>

RotY == << <<Zero, Zero, One>>, <<Zero, One, Zero>>, <<Num(-1), Zero, Zero>> >>

RotZ == << <<Zero, Num(-1), Zero>>, <<One, Zero, Zero>>, <<Zero, Zero, One>> >>

Rotations == {MatMul(a, b) : a \in {Identity(3), RotX, RotY, RotZ},
                             b \in {Identity(3), RotX, RotY, RotZ}}

\* elements of SE(3)
SE3In == {RpToTrans(R, p) : R \in Rotations, p \in SparseVec3}
             \cup {RpToTrans(RotX, <<Zero, Zero, Num(3)>>)}

\* exponential coordinates whose two parts have rational norms, down to
\* magnitudes on both sides of the negligibility threshold
Mags == {Num(n) : n \in -MaxCoord..MaxCoord}
            \cup {Rat(1, 2000000), Rat(-1, 2000000), Rat(1, 500000), Rat(1, 2)}

Parts == AxisVecs(Mags) \cup {<<Num(3), Num(4), Zero>>, <<Zero, Num(-3), Num(4)>>,
                              <<Rat(3, 10000000), Rat(4, 10000000), Zero>>}

Expc6In == {<<w[1], w[2], w[3], v[1], v[2], v[3]>> : w \in Parts, v \in Parts}

CallVecToso3 ==
    /\ fn = "idle"
    /\ \E omg \in Vec3In :
          /\ fn' = "VecToso3"
          /\ args' = <<omg>>
          /\ ret' = VecToso3(omg)

Callso3ToVec ==
    /\ fn = "idle"
    /\ \E so3mat \in SkewMats :
          /\ fn' = "so3ToVec"
          /\ args' = <<so3mat>>
          /\ ret' = so3ToVec(so3mat)

Callad ==
    /\ fn = "idle"
    /\ \E V \in TwistIn :
          /\ fn' = "ad"
          /\ args' = <<V>>
          /\ ret' = ad(V)

CallAdjoint ==
    /\ fn = "idle"
    /\ \E T \in SE3In :
          /\ fn' = "Adjoint"
          /\ args' = <<T>>
          /\ ret' = Adjoint(T)

CallTransInv ==
    /\ fn = "idle"
    /\ \E transform \in SE3In :
          /\ fn' = "TransInv"
          /\ args' = <<transform>>
          /\ ret' = TransInv(transform)

CallAxisAng6 ==
    /\ fn = "idle"
    /\ \E expc6 \in Expc6In :
          /\ fn' = "AxisAng6"
          /\ args' = <<expc6>>
          /\ ret' = AxisAng6(expc6)

\* the caller takes the result
Return ==
    /\ fn # "idle"
    /\ fn' = "idle"
    /\ args' = <<>>
    /\ ret' = <<>>

Init == fn = "idle" /\ args = <<>> /\ ret = <<>>

NextLie ==
    \/ CallVecToso3
    \/ Callso3ToVec
    \/ Callad
    \/ CallAdjoint
    \/ CallTransInv
    \/ CallAxisAng6
    \/ Return

\* calls of the Lie-group primitives
SpecLie == Init /\ [][NextLie]_vars

----------------------------------------------------------------------------
(* Callers of the kinematics of an open chain.  The joints of a chain are   *)
(* consecutive axes of JointAxes (taken cyclically): revolute joints about  *)
(* the three coordinate directions, a prismatic joint and a screw joint.   *)

\* the home configurations of the end-effector
HomeIn == {RpToTrans(MatMul(RotY, RotY), <<Zero, Num(6), Num(2)>>),
           RpToTrans(RotX, <<Num(1), Zero, Num(-2)>>)}

JointAxes == << <<Zero, Zero, One, Num(4), Zero, Zero>>,
                <<One, Zero, Zero, Zero, Num(2), Zero>>,
                <<Zero, Zero, Zero, Zero, One, Zero>>,
                <<Zero, One, Zero, Zero, Zero, One>>,
                <<Zero, Zero, Num(-1), Num(-6), Zero, Rat(-1, 10)>> >>

\* the 6 x n matrices whose columns are n consecutive axes
AxisLists(n) ==
    {Transpose(Vec(n, LAMBDA i : JointAxes[((s + i - 2) % Len(JointAxes)) + 1])) :
        s \in 1..Len(JointAxes)}

\* the lists of n joint angles: k quarter turns at the first joint and d quarter
\* turns more at each following joint
ThetaLists(n) ==
    {Vec(n, LAMBDA i : QuarterTurns(k + (i - 1) * d)) : k \in -1..MaxTurns, d \in -1..1}

CallFKinSpace ==
    /\ fn = "idle"
    /\ \E n \in 1..MaxJoints : \E M \in HomeIn : \E Slist \in AxisLists(n) :
       \E thetaList \in ThetaLists(n) :
          /\ fn' = "FKinSpace"
          /\ args' = <<M, Slist, thetaList>>
          /\ ret' = FKinSpace(M, Slist, thetaList)

CallFKinBody ==
    /\ fn = "idle"
    /\ \E n \in 1..MaxJoints : \E M \in HomeIn : \E Blist \in AxisLists(n) :
       \E thetaList \in ThetaLists(n) :
          /\ fn' = "FKinBody"
          /\ args' = <<M, Blist, thetaList>>
          /\ ret' = FKinBody(M, Blist, thetaList)

CallJacobianSpace ==
    /\ fn = "idle"
    /\ \E n \in 1..MaxJoints : \E Slist \in AxisLists(n) : \E thetaList \in ThetaLists(n) :
          /\ fn' = "JacobianSpace"
          /\ args' = <<Slist, thetaList>>
          /\ ret' = JacobianSpace(Slist, thetaList)

CallJacobianBody ==
    /\ fn = "idle"
    /\ \E n \in 1..MaxJoints : \E Blist \in AxisLists(n) : \E thetaList \in ThetaLists(n) :
          /\ fn' = "JacobianBody"
          /\ args' = <<Blist, thetaList>>
          /\ ret' = JacobianBody(Blist, thetaList)

NextKin ==
    \/ CallFKinSpace
    \/ CallFKinBody
    \/ CallJacobianSpace
    \/ CallJacobianBody
    \/ Return

\* calls of the forward kinematics and of the Jacobians
SpecKin == Init /\ [][NextKin]_vars

----------------------------------------------------------------------------
(* Callers of the inverse kinematics.  A call passes thetalist by reference: *)
(* ret holds the returned flag, thetalist as the call leaves it, and the    *)
(* number i of updates the loop has made.  The target of a call is a pose   *)
(* the chain reaches, displaced by an offset; the guess is the list of      *)
(* angles of that pose, changed in one joint.                               *)

\* the tolerances eomg and ev of IKinBodyTest
IKTols == {<<Rat(1, 100), Rat(1, 1000)>>}

\* chains of n consecutive joints without the screw joint, the last of
\* JointAxes: their Jacobians are rational, so that the update is exact
IKAxisLists(n) ==
    {Transpose(Vec(n, LAMBDA i : JointAxes[s + i - 1])) : s \in 1..(Len(JointAxes) - n)}

\* the value k of a joint: k quarter turns of a revolute joint, the
\* displacement k of a prismatic joint
JointValue(axis, k) ==
    IF axis[1] = Zero /\ axis[2] = Zero /\ axis[3] = Zero THEN Num(k) ELSE QuarterTurns(k)

\* the angles of the reached poses: every joint at the value k
IKThetas(list) ==
    {Vec(Cols(list), LAMBDA i : JointValue(Col(list, i), k)) : k \in 0..MaxTurns}

\* the guess: theta with d added to the value of joint k
IKGuess(list, theta, k, d) ==
    Vec(Len(theta), LAMBDA i :
        IF i = k THEN NAdd(theta[i], JointValue(Col(list, i), d)) ELSE theta[i])

\* the changes of one joint value of the guess
IKSteps == {0, 1, -2}

\* the chain of one prismatic joint
IsSlider(list) == Cols(list) = 1 /\ Col(list, 1) = JointAxes[3]

\* displacements of the target that the chain cannot follow: translations off
\* the joint's direction, by the tolerance ev and by more, and half turns.
\* They are given to the chain of one prismatic joint, whose iterates stay
\* in the numbers of the model
IKOffsets(list, ev) ==
    IF IsSlider(list)
    THEN {RpToTrans(R, p) : R \in {Identity(3), MatMul(RotZ, RotZ)},
                            p \in {<<ev, Zero, Zero>>, <<One, Zero, Zero>>,
                                   <<Zero, Zero, Num(-MaxCoord)>>}}
             \cup {Identity(4)}
    ELSE {Identity(4)}

CallIKinBody ==
    /\ fn = "idle"
    /\ \E n \in 1..MaxJoints : \E M \in HomeIn : \E Blist \in IKAxisLists(n) :
       \E theta \in IKThetas(Blist) : \E k \in 1..n : \E d \in IKSteps : \E tol \in IKTols :
       \E off \in IKOffsets(Blist, tol[2]) :
          /\ fn' = "IKinBody"
          /\ args' = <<Blist, M, MatMul(FKinBody(M, Blist, theta), off),
                       IKGuess(Blist, theta, k, d), tol[1], tol[2]>>
          /\ ret' = IKinBody(args'[1], args'[2], args'[3], args'[4], args'[5], args'[6])

CallIKinSpace ==
    /\ fn = "idle"
    /\ \E n \in 1..MaxJoints : \E M \in HomeIn : \E Slist \in IKAxisLists(n) :
       \E theta \in IKThetas(Slist) : \E k \in 1..n : \E d \in IKSteps : \E tol \in IKTols :
       \E off \in IKOffsets(Slist, tol[2]) :
          /\ fn' = "IKinSpace"
          /\ args' = <<Slist, M, MatMul(FKinSpace(M, Slist, theta), off),
                       IKGuess(Slist, theta, k, d), tol[1], tol[2]>>
          /\ ret' = IKinSpace(args'[1], args'[2], args'[3], args'[4], args'[5], args'[6])

NextIK ==
    \/ CallIKinBody
    \/ CallIKinSpace
    \/ Return

\* calls of the inverse kinematics
SpecIK == Init /\ [][NextIK]_vars

----------------------------------------------------------------------------
(* Callers of the dynamics.  A model of a chain of n links is Mlist, the    *)
(* n + 1 link frames, Glist, the n spatial inertias, and Slist, the screw   *)
(* axes; joints are revolute or prismatic, at quarter turns and whole       *)
(* displacements.                                                           *)

\* the link frames of MassMatrixTest: translations and quarter turns about y
LinkFrame(i) ==
    IF i % 2 = 1 THEN RpToTrans(Identity(3), <<Zero, Zero, Num(2)>>)
    ELSE RpToTrans(RotY, <<One, Num(-1), Zero>>)

MlistOf(n) == Vec(n + 1, LAMBDA i : LinkFrame(i))

\* the spatial inertia [[I, 0], [0, m 1]] of a link of mass m with the
\* rotational inertia I about its centre of mass
SpatialInertia(I, m) == Blocks(I, ZeroMat(3, 3), ZeroMat(3, 3), MatScale(m, Identity(3)))

\* rotational inertias: principal axes along the link frame (as in
\* MassMatrixTest) and turned away from it, both positive-definite, and the
\* zero inertia of a point mass
RotInertia(kind, i) ==
    IF kind = "principal"
    THEN << <<Num(i), Zero, Zero>>, <<Zero, Num(i), Zero>>, <<Zero, Zero, One>> >>
    ELSE IF kind = "turned"
    THEN << <<Num(2), One, Zero>>, <<One, Num(2), Zero>>, <<Zero, Zero, Num(i + 2)>> >>
    ELSE ZeroMat(3, 3)

GlistOf(n, kind) == Vec(n, LAMBDA i : SpatialInertia(RotInertia(kind, i), Num(i + 1)))

\* models whose spatial inertias are positive-definite, and all models
SolidKinds == {"principal", "turned"}

AllKinds == SolidKinds \cup {"point"}

\* joint rates: a - (i - 1) at joint i
RateLists(n) == {Vec(n, LAMBDA i : Num(a + 1 - i)) : a \in 0..1}

\* the rates 2 - i at joint i
FastRates(n) == Vec(n, LAMBDA i : Num(2 - i))

\* joint accelerations: 2 - i at joint i
AccelList(n) == Vec(n, LAMBDA i : Num(2 - i))

\* the gravity vector of InverseDynamicsTest, and none
Gravities == {<<Zero, Zero, Rat(-49, 5)>>, ZeroVec(3)}

\* the wrench of InverseDynamicsTest, and none
Wrenches == {<<One, One, One, One, One, One>>, ZeroVec(6)}

\* gravity and wrench together, and neither
Loads == {<<<<Zero, Zero, Rat(-49, 5)>>, <<One, One, One, One, One, One>>>>,
          <<ZeroVec(3), ZeroVec(6)>>}

CallInverseDynamics ==
    /\ fn = "idle"
    /\ \E n \in 1..MaxJoints : \E Slist \in IKAxisLists(n) : \E kind \in SolidKinds :
       \E thetalist \in IKThetas(Slist) : \E dthetalist \in RateLists(n) :
       \E load \in Loads :
          /\ fn' = "InverseDynamics"
          /\ args' = <<thetalist, dthetalist, AccelList(n), load[1], load[2],
                       MlistOf(n), GlistOf(n, kind), Slist>>
          /\ ret' = InverseDynamics(args'[1], args'[2], args'[3], args'[4], args'[5],
                                    args'[6], args'[7], args'[8])

CallGravityForces ==
    /\ fn = "idle"
    /\ \E n \in 1..MaxJoints : \E Slist \in IKAxisLists(n) : \E kind \in SolidKinds :
       \E thetalist \in IKThetas(Slist) : \E g \in Gravities :
          /\ fn' = "GravityForces"
          /\ args' = <<thetalist, g, MlistOf(n), GlistOf(n, kind), Slist>>
          /\ ret' = GravityForces(args'[1], args'[2], args'[3], args'[4], args'[5])

CallMassMatrix ==
    /\ fn = "idle"
    /\ \E n \in 1..MaxJoints : \E Slist \in IKAxisLists(n) : \E kind \in AllKinds :
       \E thetalist \in IKThetas(Slist) :
          /\ fn' = "MassMatrix"
          /\ args' = <<thetalist, MlistOf(n), GlistOf(n, kind), Slist>>
          /\ ret' = MassMatrix(args'[1], args'[2], args'[3], args'[4])

CallVelQuadraticForces ==
    /\ fn = "idle"
    /\ \E n \in 1..MaxJoints : \E Slist \in IKAxisLists(n) : \E kind \in SolidKinds :
       \E thetalist \in IKThetas(Slist) : \E dthetalist \in RateLists(n) :
          /\ fn' = "VelQuadraticForces"
          /\ args' = <<thetalist, dthetalist, MlistOf(n), GlistOf(n, kind), Slist>>
          /\ ret' = VelQuadraticForces(args'[1], args'[2], args'[3], args'[4], args'[5])

CallEndEffectorForces ==
    /\ fn = "idle"
    /\ \E n \in 1..MaxJoints : \E Slist \in IKAxisLists(n) : \E kind \in SolidKinds :
       \E thetalist \in IKThetas(Slist) : \E Ftip \in Wrenches :
          /\ fn' = "EndEffectorForces"
          /\ args' = <<thetalist, Ftip, MlistOf(n), GlistOf(n, kind), Slist>>
          /\ ret' = EndEffectorForces(args'[1], args'[2], args'[3], args'[4], args'[5])

\* the caller computes taulist from its ddthetalist, which it keeps (args[9])
CallForwardDynamics ==
    /\ fn = "idle"
    /\ \E n \in 1..MaxJoints : \E Slist \in IKAxisLists(n) :
       \E thetalist \in IKThetas(Slist) : \E load \in Loads :
          /\ fn' = "ForwardDynamics"
          /\ args' = <<thetalist, FastRates(n),
                       InverseDynamics(thetalist, FastRates(n), AccelList(n), load[1], load[2],
                                       MlistOf(n), GlistOf(n, "turned"), Slist),
                       load[1], load[2], MlistOf(n), GlistOf(n, "turned"), Slist,
                       AccelList(n)>>
          /\ ret' = ForwardDynamics(args'[1], args'[2], args'[3], args'[4], args'[5],
                                    args'[6], args'[7], args'[8])

\* the time steps of EulerStepTest and of a finer integration
TimeSteps == {Rat(1, 10), Rat(1, 100)}

CallEulerStep ==
    /\ fn = "idle"
    /\ \E n \in 1..MaxJoints : \E Slist \in IKAxisLists(n) :
       \E thetalist \in IKThetas(Slist) : \E dthetalist \in RateLists(n) :
       \E dt \in TimeSteps :
          /\ fn' = "EulerStep"
          /\ args' = <<thetalist, dthetalist, AccelList(n), dt>>
          /\ ret' = EulerStep(args'[1], args'[2], args'[3], args'[4])

NextDyn ==
    \/ CallInverseDynamics
    \/ CallGravityForces
    \/ CallMassMatrix
    \/ CallVelQuadraticForces
    \/ CallEndEffectorForces
    \/ CallForwardDynamics
    \/ CallEulerStep
    \/ Return

\* calls of the dynamics
SpecDyn == Init /\ [][NextDyn]_vars

----------------------------------------------------------------------------
(* Callers of the time scalings and of the trajectory generators.           *)

\* trajectories have 2..MaxSamples samples
MaxSamples == 4

\* the durations of the tests, and one below 1
Durations == {Num(2), Num(5), Rat(1, 2)}

\* the times j Tf / 10 of a motion of duration Tf, from its start to its end
TimesOf(Tf) == {NDiv(NMul(Num(j), Tf), Num(10)) : j \in {0, 3, 5, 10}}

CallCubicTimeScaling ==
    /\ fn = "idle"
    /\ \E Tf \in Durations : \E t \in TimesOf(Tf) :
          /\ fn' = "CubicTimeScaling"
          /\ args' = <<Tf, t>>
          /\ ret' = CubicTimeScaling(Tf, t)

CallQuinticTimeScaling ==
    /\ fn = "idle"
    /\ \E Tf \in Durations : \E t \in TimesOf(Tf) :
          /\ fn' = "QuinticTimeScaling"
          /\ args' = <<Tf, t>>
          /\ ret' = QuinticTimeScaling(Tf, t)

\* the methods: cubic and quintic time scaling
Methods == {3, 5}

CallJointTrajectory ==
    /\ fn = "idle"
    /\ \E n \in 1..MaxJoints : \E thetastart \in ThetaLists(n) : \E thetaend \in RateLists(n) :
       \E Tf \in Durations : \E N \in 2..MaxSamples : \E method \in Methods :
          /\ fn' = "JointTrajectory"
          /\ args' = <<thetastart, thetaend, Tf, N, method>>
          /\ ret' = JointTrajectory(thetastart, thetaend, Tf, N, method)

\* start poses: the Xstart of ScrewTrajectoryTest and a turned one
StartPoses == {RpToTrans(Identity(3), <<One, Zero, One>>),
               RpToTrans(RotX, <<Zero, Num(-MaxCoord), One>>)}

\* the motions from Xstart to Xend: none, translations, and quarter and half
\* turns about an axis of the start frame, with and without a translation
Motions == {RpToTrans(R, p) : R \in {Identity(3), RotZ, RotX, MatMul(RotZ, RotZ)},
                              p \in {<<Zero, Zero, Zero>>, <<Num(-1), Zero, Num(3)>>,
                                     <<Zero, Rat(1, 10), Zero>>}}

CallScrewTrajectory ==
    /\ fn = "idle"
    /\ \E Xstart \in StartPoses : \E motion \in Motions :
       \E Tf \in Durations : \E N \in 2..MaxSamples : \E method \in Methods :
          /\ fn' = "ScrewTrajectory"
          /\ args' = <<Xstart, MatMul(Xstart, motion), Tf, N, method>>
          /\ ret' = ScrewTrajectory(args'[1], args'[2], Tf, N, method)

CallCartesianTrajectory ==
    /\ fn = "idle"
    /\ \E Xstart \in StartPoses : \E motion \in Motions :
       \E Tf \in Durations : \E N \in 2..MaxSamples : \E method \in Methods :
          /\ fn' = "CartesianTrajectory"
          /\ args' = <<Xstart, MatMul(Xstart, motion), Tf, N, method>>
          /\ ret' = CartesianTrajectory(args'[1], args'[2], Tf, N, method)

NextTraj ==
    \/ CallCubicTimeScaling
    \/ CallQuinticTimeScaling
    \/ CallJointTrajectory
    \/ CallScrewTrajectory
    \/ CallCartesianTrajectory
    \/ Return

\* calls of the time scalings and of the trajectory generators
SpecTraj == Init /\ [][NextTraj]_vars

----------------------------------------------------------------------------
(* Callers of the distances to SO(3) and SE(3) and of the membership tests: *)
(* rotations, matrices a little and far off the rotations, reflections and  *)
(* singular matrices.                                                       *)

Diag3(a, b, c) == << <<a, Zero, Zero>>, <<Zero, b, Zero>>, <<Zero, Zero, c>> >>

Shear3(a) == << <<One, a, Zero>>, <<Zero, One, Zero>>, <<Zero, Zero, One>> >>

\* offsets on both sides of the threshold of the tests
SmallOffsets == {Rat(1, 2048), Rat(1, 1024)}

Mat3In ==
    Rotations
        \cup {Diag3(Rat(513, 512), One, One)}
        \cup {Shear3(e) : e \in SmallOffsets \cup {One}}
        \cup {MatMul(R, Diag3(One, One, c)) : R \in {Identity(3), RotX, MatMul(RotZ, RotY)},
                                              c \in {Num(-1), Zero, Num(MaxCoord)}}
        \cup {Diag3(Num(2), Num(2), Num(2)), Diag3(Num(-1), Num(-1), One), ZeroMat(3, 3)}

\* the last rows of the 4x4 arguments: (0, 0, 0, 1), and rows off it by a
\* little and by much
LastRows == {<<Zero, Zero, Zero, One>>, <<Zero, Zero, Zero, Num(2)>>,
             <<One, Zero, Zero, One>>}
                \cup {<<Zero, Zero, e, One>> : e \in SmallOffsets}
                \cup {<<Zero, Zero, Zero, NSub(One, e)>> : e \in SmallOffsets}

Mat4In == {Blocks(R, AsCol(p), <<<<Zero, Zero, Zero, One>>>>, <<>>) :
               R \in Mat3In, p \in {<<Zero, Zero, Zero>>, <<Num(1), Num(2), Num(3)>>}}
              \cup {Blocks(R, AsCol(p), <<row>>, <<>>) :
                        R \in Rotations \cup {Diag3(One, One, Num(-1))},
                        p \in {<<Zero, Zero, Zero>>, <<Num(1), Num(2), Num(3)>>},
                        row \in LastRows}

CallDistanceToSO3 ==
    /\ fn = "idle"
    /\ \E M \in Mat3In :
          /\ fn' = "DistanceToSO3"
          /\ args' = <<M>>
          /\ ret' = DistanceToSO3(M)

CallDistanceToSE3 ==
    /\ fn = "idle"
    /\ \E T \in Mat4In :
          /\ fn' = "DistanceToSE3"
          /\ args' = <<T>>
          /\ ret' = DistanceToSE3(T)

CallTestIfSO3 ==
    /\ fn = "idle"
    /\ \E M \in Mat3In :
          /\ fn' = "TestIfSO3"
          /\ args' = <<M>>
          /\ ret' = TestIfSO3(M)

CallTestIfSE3 ==
    /\ fn = "idle"
    /\ \E T \in Mat4In :
          /\ fn' = "TestIfSE3"
          /\ args' = <<T>>
          /\ ret' = TestIfSE3(T)

NextDist ==
    \/ CallDistanceToSO3
    \/ CallDistanceToSE3
    \/ CallTestIfSO3
    \/ CallTestIfSE3
    \/ Return

\* calls of the distances and of the membership tests
SpecDist == Init /\ [][NextDist]_vars

----------------------------------------------------------------------------
(* Callers of the controller and of the simulations.  The chains are those  *)
(* of the dynamics; the reference of the controller is a configuration of   *)
(* the chain, at rest, with the accelerations of the dynamics' callers.     *)

\* the gains Kp, Ki, Kd of ComputedTorqueTest, and a proportional gain alone
Gains == {<<Rat(13, 10), Rat(6, 5), Rat(11, 10)>>, <<One, Zero, Zero>>}

\* the integral of the error of ComputedTorqueTest, and none
ErrorIntegrals(n) == {Vec(n, LAMBDA i : Rat(1, 5)), ZeroVec(n)}

\* the gravity vector of ComputedTorqueTest
Gravity == <<Zero, Zero, Rat(-49, 5)>>

\* every joint of the chain at the value k
JointsAt(list, k) == Vec(Cols(list), LAMBDA i : JointValue(Col(list, i), k))

CallComputedTorque ==
    /\ fn = "idle"
    /\ \E n \in 1..MaxJoints : \E Slist \in IKAxisLists(n) : \E k \in 0..MaxTurns :
       \E eint \in ErrorIntegrals(n) : \E K \in Gains :
          /\ fn' = "ComputedTorque"
          /\ args' = <<JointsAt(Slist, k), FastRates(n), eint, Gravity, MlistOf(n),
                       GlistOf(n, "turned"), Slist,
                       JointsAt(Slist, MaxTurns - k), ZeroVec(n), AccelList(n),
                       K[1], K[2], K[3]>>
          /\ ret' = ComputedTorque(args'[1], args'[2], args'[3], args'[4], args'[5],
                                   args'[6], args'[7], args'[8], args'[9], args'[10],
                                   args'[11], args'[12], args'[13])

\* the inner loops make 1..MaxRes passes
MaxRes == 2

\* the simulations have 1..MaxRows samples
MaxRows == 3

\* the time step between the samples with the multiple of AccelList that the
\* caller plans as accelerations
SimPlans == {<<One, 0>>, <<One, 1>>, <<Rat(1, 2), 1>>}

\* the simulated chains have fewer than MaxJoints joints
SimChains == UNION {IKAxisLists(n) : n \in 1..(MaxJoints - 1)}

\* the motion the caller plans: every joint at the value i in sample i, for
\* the samples 0..N-1 a time dt apart, with the joint rates of that motion
PlanTheta(list, N) == Vec(N, LAMBDA i : JointsAt(list, i - 1))

PlanRate(list, dt) == VecDivScalar(JointsAt(list, 1), dt)

\* the wrenches at the tip: the wrench of InverseDynamicsTest in every other
\* sample
PlanFtip(N) == Vec(N, LAMBDA i : IF i % 2 = 0 THEN <<One, One, One, One, One, One>>
                                 ELSE ZeroVec(6))

\* the rows of InverseDynamicsTrajectory for the planned motion with the
\* accelerations a * AccelList
PlanTau(list, N, dt, a) ==
    Vec(N, LAMBDA i :
        InverseDynamics(JointsAt(list, i - 1), PlanRate(list, dt),
                        VecScale(Num(a), AccelList(Cols(list))), Gravity, PlanFtip(N)[i],
                        MlistOf(Cols(list)), GlistOf(Cols(list), "turned"), list))

\* the caller computes taumat for its plan and integrates from the plan's
\* first sample
CallForwardDynamicsTrajectory ==
    /\ fn = "idle"
    /\ \E Slist \in SimChains : \E N \in 1..MaxRows : \E plan \in SimPlans :
       \E intRes \in 1..MaxRes :
          /\ fn' = "ForwardDynamicsTrajectory"
          /\ args' = <<JointsAt(Slist, 0), PlanRate(Slist, plan[1]),
                       PlanTau(Slist, N, plan[1], plan[2]), Gravity, PlanFtip(N),
                       MlistOf(Cols(Slist)), GlistOf(Cols(Slist), "turned"), Slist,
                       plan[1], intRes>>
          /\ ret' = ForwardDynamicsTrajectory(args'[1], args'[2], args'[3], args'[4],
                                              args'[5], args'[6], args'[7], args'[8],
                                              args'[9], args'[10])

\* MassMatrix with the calls of InverseDynamics it has made
CallMassMatrixCounted ==
    /\ fn = "idle"
    /\ \E n \in 1..MaxJoints : \E Slist \in IKAxisLists(n) : \E k \in 0..MaxTurns :
          /\ fn' = "MassMatrix"
          /\ args' = <<JointsAt(Slist, k), MlistOf(n), GlistOf(n, "turned"), Slist>>
          /\ ret' = <<MassMatrix(args'[1], args'[2], args'[3], args'[4]),
                      MassMatrixCalls(args'[1], args'[2], args'[3], args'[4],
                                      Len(args'[1]))>>

NextCtl ==
    \/ CallComputedTorque
    \/ CallMassMatrixCounted
    \/ CallForwardDynamicsTrajectory
    \/ Return

\* calls of the controller and of the simulations
SpecCtl == Init /\ [][NextCtl]_vars

\* the model of the controller: the plant's, or one with another gravity and
\* other inertias
ControllerModels(n) ==
    {<<Gravity, GlistOf(n, "turned")>>,
     <<<<Zero, Zero, Num(-10)>>, GlistOf(n, "principal")>>}

\* the controlled chains: the single joints, and a revolute joint that
\* carries a prismatic one
ControlChains == IKAxisLists(1) \cup {Transpose(<<JointAxes[2], JointAxes[3]>>)}

\* the gains of the simulations: all three terms, and the proportional one
SimGains == {<<Num(2), One, One>>, <<One, Zero, Zero>>}

\* the caller plans a motion and lets the controller follow it from rest, one
\* joint value ahead of the plan's first sample
CallSimulateControl ==
    /\ fn = "idle"
    /\ \E Slist \in ControlChains : \E N \in 1..MaxRows : \E intRes \in 1..MaxRes :
       \E K \in SimGains : \E model \in ControllerModels(Cols(Slist)) :
          /\ fn' = "SimulateControl"
          /\ args' = <<JointsAt(Slist, 1), ZeroVec(Cols(Slist)),
                       Gravity, PlanFtip(N), MlistOf(Cols(Slist)),
                       GlistOf(Cols(Slist), "turned"), Slist,
                       PlanTheta(Slist, N),
                       Vec(N, LAMBDA i : PlanRate(Slist, One)),
                       Vec(N, LAMBDA i : AccelList(Cols(Slist))),
                       model[1], MlistOf(Cols(Slist)), model[2],
                       K[1], K[2], K[3], One, intRes>>
          /\ ret' = SimulateControl(args'[1], args'[2], args'[3], args'[4], args'[5],
                                    args'[6], args'[7], args'[8], args'[9], args'[10],
                                    args'[11], args'[12], args'[13], args'[14],
                                    args'[15], args'[16], args'[17], args'[18])

NextSim ==
    \/ CallSimulateControl
    \/ Return

\* calls of the simulation of the controlled plant
SpecSim == Init /\ [][NextSim]_vars

----------------------------------------------------------------------------
(* Callers of the exponentials, the logarithms and the axis-angle forms.    *)
(* Rotations are by quarter and half turns about the coordinate axes and by *)
(* half turns about axes with rational direction cosines; the exponential  *)
(* coordinates are those of such rotations, of translations, and vectors   *)
(* with negligible parts.                                                   *)

\* unit vectors with rational entries
UnitAxes == AxisVecs({One, Num(-1)})
                \cup {<<Zero, Rat(4, 5), Rat(3, 5)>>, <<Zero, Rat(4, 5), Rat(-3, 5)>>,
                      <<Rat(3, 5), Zero, Rat(4, 5)>>, <<Rat(-4, 5), Rat(3, 5), Zero>>,
                      <<Rat(2, 3), Rat(-2, 3), Rat(1, 3)>>}

\* the rotation by a half turn about the unit vector n: 2 n n^T - I
HalfTurn(n) == Mat(3, 3, LAMBDA i, j :
                   NSub(NMul(Num(2), NMul(n[i], n[j])), IF i = j THEN One ELSE Zero))

LogRotations == {Identity(3), RotX, RotY, RotZ, Transpose(RotX), Transpose(RotY),
                 Transpose(RotZ)} \cup {HalfTurn(n) : n \in UnitAxes}

LogPoses == {RpToTrans(R, p) : R \in LogRotations,
                               p \in {<<Zero, Zero, Zero>>, <<Num(1), Num(2), Num(3)>>,
                                      <<Zero, Num(-MaxCoord), One>>}}

\* exponential coordinates of rotations: an axis times an angle of -1..MaxTurns
\* quarter turns, and of negligible rotations
Expc3In == {VecScale(QuarterTurns(k), n) : n \in UnitAxes, k \in -1..MaxTurns}
               \cup AxisVecs({Rat(1, 2000000), Rat(1, 500000)})

\* exponential coordinates of rigid motions
Expc6Motions == {<<w[1], w[2], w[3], v[1], v[2], v[3]>> :
                    w \in Expc3In,
                    v \in {<<Zero, Zero, Zero>>, <<Num(1), Num(2), Num(3)>>,
                           <<QuarterTurns(1), Zero, Num(-MaxCoord)>>}}

CallMatrixExp3 ==
    /\ fn = "idle"
    /\ \E expc3 \in Expc3In :
          /\ fn' = "MatrixExp3"
          /\ args' = <<VecToso3(expc3)>>
          /\ ret' = MatrixExp3(args'[1])

CallMatrixLog3 ==
    /\ fn = "idle"
    /\ \E R \in LogRotations :
          /\ fn' = "MatrixLog3"
          /\ args' = <<R>>
          /\ ret' = MatrixLog3(R)

CallMatrixExp6 ==
    /\ fn = "idle"
    /\ \E expc6 \in Expc6Motions :
          /\ fn' = "MatrixExp6"
          /\ args' = <<VecTose3(expc6)>>
          /\ ret' = MatrixExp6(args'[1])

CallMatrixLog6 ==
    /\ fn = "idle"
    /\ \E T \in LogPoses :
          /\ fn' = "MatrixLog6"
          /\ args' = <<T>>
          /\ ret' = MatrixLog6(T)

CallAxisAng3 ==
    /\ fn = "idle"
    /\ \E expc3 \in Parts :
          /\ fn' = "AxisAng3"
          /\ args' = <<expc3>>
          /\ ret' = AxisAng3(expc3)

NextExp ==
    \/ CallMatrixExp3
    \/ CallMatrixLog3
    \/ CallMatrixExp6
    \/ CallMatrixLog6
    \/ CallAxisAng3
    \/ CallAxisAng6
    \/ Return

\* calls of the exponentials, the logarithms and the axis-angle forms
SpecExp == Init /\ [][NextExp]_vars

----------------------------------------------------------------------------
(* Properties.                                                             *)

\* the negation of every entry of a vector and of a matrix
VecNeg(v) == Vec(Len(v), LAMBDA i : NNeg(v[i]))

MatNeg(A) == Mat(Rows(A), Cols(A), LAMBDA i, j : NNeg(A[i][j]))

\* the translation column of a transform
Pos(T) == <<T[1][4], T[2][4], T[3][4]>>

\* the matrix commutator [V1][V2] - [V2][V1] of two twists, as a 6-vector
LieBracket(V1, V2) ==
    se3ToVec(MatSub(MatMul(VecTose3(V1), VecTose3(V2)), MatMul(VecTose3(V2), VecTose3(V1))))

\* exp([A_i] theta_i), A_i the i-th column (1-based) of an axis list
JointExp(list, thetaList, i) ==
    MatrixExp6(VecTose3(VecScale(thetaList[i], Col(list, i))))

\* exp([A_i] theta_i) exp([A_i+1] theta_i+1) ... exp([A_j] theta_j); the identity if i > j
RECURSIVE ExpProduct(_, _, _, _)
ExpProduct(list, thetaList, i, j) ==
    IF i > j THEN Identity(4)
    ELSE MatMul(JointExp(list, thetaList, i), ExpProduct(list, thetaList, i + 1, j))

\* exp([A_j] theta_j) exp([A_j-1] theta_j-1) ... exp([A_i] theta_i); the identity if j < i
RECURSIVE ExpProductDown(_, _, _, _)
ExpProductDown(list, thetaList, j, i) ==
    IF j < i THEN Identity(4)
    ELSE MatMul(JointExp(list, thetaList, j), ExpProductDown(list, thetaList, j - 1, i))

\* the body axes B_i = Adjoint(TransInv(M)) S_i of the space axes S_i
BodyAxes(M, Slist) == MatMul(Adjoint(TransInv(M)), Slist)

\* every entry of a matrix is a finite number of the model
FiniteMat(A) == \A i \in 1..Rows(A) : \A j \in 1..Cols(A) : IsFinite(A[i][j])

\* C1: VecToso3(w) is the skew-symmetric matrix [[0,-z,y],[z,0,-x],[-y,x,0]] of
\* w = (x,y,z), its transpose is its negation and so3ToVec gives w back; for a
\* skew-symmetric K, VecToso3(so3ToVec(K)) is K.
VecToso3Inverse ==
    /\ fn = "VecToso3" =>
          /\ ret = << <<Zero, NSub(Zero, args[1][3]), args[1][2]>>,
                      <<args[1][3], Zero, NSub(Zero, args[1][1])>>,
                      <<NSub(Zero, args[1][2]), args[1][1], Zero>> >>
          /\ Transpose(ret) = MatNeg(ret)
          /\ so3ToVec(ret) = args[1]
    /\ fn = "so3ToVec" =>
          /\ Len(ret) = 3
          /\ VecToso3(ret) = args[1]

VecToso3Witness ==
    /\ fn = "VecToso3"
    /\ args[1] = <<Num(1), Num(2), Num(3)>>
    /\ ret = << <<Num(0), Num(-3), Num(2)>>,
                <<Num(3), Num(0), Num(-1)>>,
                <<Num(-2), Num(1), Num(0)>> >>
    /\ so3ToVec(ret) = args[1]

\* C2: ad(V) for V = [w; v] is the block matrix [[skew(w), 0], [skew(v), skew(w)]],
\* and ad(V1) V2 is the Lie bracket of V1 and V2, the 6-vector of the commutator
\* of their se(3) matrices.
AdIsLieBracket ==
    fn = "ad" =>
        /\ Block3(ret, 1, 1) = VecToso3(<<args[1][1], args[1][2], args[1][3]>>)
        /\ Block3(ret, 1, 4) = ZeroMat(3, 3)
        /\ Block3(ret, 4, 1) = VecToso3(<<args[1][4], args[1][5], args[1][6]>>)
        /\ Block3(ret, 4, 4) = VecToso3(<<args[1][1], args[1][2], args[1][3]>>)
        /\ Rows(ret) = 6 /\ Cols(ret) = 6
        /\ \A V2 \in BracketArgs : MatVec(ret, V2) = LieBracket(args[1], V2)

AdWitness ==
    /\ fn = "ad"
    /\ args[1] = <<Num(1), Num(2), Num(3), Num(4), Num(5), Num(6)>>
    /\ ret = << <<Num(0), Num(-3), Num(2), Num(0), Num(0), Num(0)>>,
                <<Num(3), Num(0), Num(-1), Num(0), Num(0), Num(0)>>,
                <<Num(-2), Num(1), Num(0), Num(0), Num(0), Num(0)>>,
                <<Num(0), Num(-6), Num(5), Num(0), Num(-3), Num(2)>>,
                <<Num(6), Num(0), Num(-4), Num(3), Num(0), Num(-1)>>,
                <<Num(-5), Num(4), Num(0), Num(-2), Num(1), Num(0)>> >>
    /\ \E V2 \in BracketArgs :
          /\ MatVec(ret, V2) = LieBracket(args[1], V2)
          /\ LieBracket(args[1], V2) # <<Zero, Zero, Zero, Zero, Zero, Zero>>
          /\ V2[4] # Zero

\* C3: for a transform T with rotation block R and position column p, Adjoint(T)
\* is the 6x6 block matrix [[R, 0], [skew(p) R, R]].
AdjointBlocks ==
    fn = "Adjoint" =>
        /\ Rows(ret) = 6 /\ Cols(ret) = 6
        /\ Block3(ret, 1, 1) = Block3(args[1], 1, 1)
        /\ Block3(ret, 1, 4) = ZeroMat(3, 3)
        /\ Block3(ret, 4, 1) = MatMul(VecToso3(Pos(args[1])), Block3(args[1], 1, 1))
        /\ Block3(ret, 4, 4) = Block3(args[1], 1, 1)

AdjointWitness ==
    /\ fn = "Adjoint"
    /\ args[1] = << <<Num(1), Num(0), Num(0), Num(0)>>,
                    <<Num(0), Num(0), Num(-1), Num(0)>>,
                    <<Num(0), Num(1), Num(0), Num(3)>>,
                    <<Num(0), Num(0), Num(0), Num(1)>> >>
    /\ ret = << <<Num(1), Num(0), Num(0), Num(0), Num(0), Num(0)>>,
                <<Num(0), Num(0), Num(-1), Num(0), Num(0), Num(0)>>,
                <<Num(0), Num(1), Num(0), Num(0), Num(0), Num(0)>>,
                <<Num(0), Num(0), Num(3), Num(1), Num(0), Num(0)>>,
                <<Num(3), Num(0), Num(0), Num(0), Num(0), Num(-1)>>,
                <<Num(0), Num(0), Num(0), Num(0), Num(1), Num(0)>> >>

\* C4: for T in SE(3) with rotation R and position p, TransInv(T) is
\* [[R^T, -R^T p], [0 0 0 1]]; T TransInv(T) and TransInv(T) T are the identity,
\* and TransInv(TransInv(T)) is T.
TransInvIsInverse ==
    fn = "TransInv" =>
        /\ ret = RpToTrans(Transpose(Block3(args[1], 1, 1)),
                           VecNeg(MatVec(Transpose(Block3(args[1], 1, 1)), Pos(args[1]))))
        /\ MatMul(args[1], ret) = Identity(4)
        /\ MatMul(ret, args[1]) = Identity(4)
        /\ TransInv(ret) = args[1]

TransInvWitness ==
    /\ fn = "TransInv"
    /\ args[1] = << <<Num(1), Num(0), Num(0), Num(0)>>,
                    <<Num(0), Num(0), Num(-1), Num(0)>>,
                    <<Num(0), Num(1), Num(0), Num(3)>>,
                    <<Num(0), Num(0), Num(0), Num(1)>> >>
    /\ ret = << <<Num(1), Num(0), Num(0), Num(0)>>,
                <<Num(0), Num(0), Num(1), Num(-3)>>,
                <<Num(0), Num(-1), Num(0), Num(0)>>,
                <<Num(0), Num(0), Num(0), Num(1)>> >>
    /\ MatMul(args[1], ret) = Identity(4)

\* C5: AxisAng6(expc6) is [expc6 / theta, theta], theta being the norm of the
\* first three entries unless that norm is below 1e-6, and then the norm of the
\* last three entries.
AxisAng6Theta ==
    fn = "AxisAng6" =>
        Let(IF NLt(Norm(<<args[1][1], args[1][2], args[1][3]>>), Rat(1, 1000000))
            THEN Norm(<<args[1][4], args[1][5], args[1][6]>>)
            ELSE Norm(<<args[1][1], args[1][2], args[1][3]>>),
            LAMBDA theta :
                /\ Len(ret) = 7
                /\ ret[7] = theta
                /\ \A i \in 1..6 : ret[i] = NDiv(args[1][i], theta))

\* a negligible but nonzero angular part: theta is the norm of the linear part
AxisAng6Witness ==
    /\ fn = "AxisAng6"
    /\ args[1] = <<Rat(1, 2000000), Zero, Zero, Zero, Num(2), Zero>>
    /\ ret = <<Rat(1, 4000000), Zero, Zero, Zero, One, Zero, Num(2)>>

\* C6 (as stated): FKinSpace(M, Slist, theta) is exp(S_n theta_n) ... exp(S_1 theta_1) M,
\* the exponential of the last joint leftmost and that of the first joint next to M.
FKinSpaceLastJointLeftmost ==
    fn = "FKinSpace" =>
        ret = MatMul(ExpProductDown(args[2], args[3], Len(args[3]), 1), args[1])

\* C6 (amended): FKinSpace(M, Slist, theta) is exp(S_1 theta_1) ... exp(S_n theta_n) M,
\* the exponential of the first joint leftmost and that of the last joint next to M.
FKinSpaceFirstJointLeftmost ==
    fn = "FKinSpace" =>
        ret = MatMul(ExpProduct(args[2], args[3], 1, Len(args[3])), args[1])

\* a chain whose two products differ
FKinSpaceWitness ==
    /\ fn = "FKinSpace"
    /\ Len(args[3]) = 3
    /\ \A i \in 1..3 : ~IsZero(args[3][i])
    /\ FiniteMat(ret)
    /\ ret = MatMul(ExpProduct(args[2], args[3], 1, 3), args[1])
    /\ ret # MatMul(ExpProductDown(args[2], args[3], 3, 1), args[1])

\* C7: FKinBody(M, Blist, theta) is M exp(B_1 theta_1) ... exp(B_n theta_n), the
\* exponential of the first joint next to M and that of the last joint rightmost.
FKinBodyProduct ==
    fn = "FKinBody" =>
        ret = MatMul(args[1], ExpProduct(args[2], args[3], 1, Len(args[3])))

FKinBodyWitness ==
    /\ fn = "FKinBody"
    /\ Len(args[3]) = 3
    /\ \A i \in 1..3 : ~IsZero(args[3][i])
    /\ FiniteMat(ret)
    /\ ret = MatMul(args[1], ExpProduct(args[2], args[3], 1, 3))
    /\ ret # MatMul(args[1], ExpProductDown(args[2], args[3], 3, 1))
    /\ ret # MatMul(ExpProduct(args[2], args[3], 1, 3), args[1])

\* C8: with the body axes B_i = Adjoint(TransInv(M)) S_i, FKinSpace(M, Slist, theta)
\* and FKinBody(M, Blist, theta) are the same transform.
FKinSpaceAgreesWithBody ==
    fn = "FKinSpace" =>
        ret = FKinBody(args[1], BodyAxes(args[1], args[2]), args[3])

FKinAgreeWitness ==
    /\ fn = "FKinSpace"
    /\ Len(args[3]) = 3
    /\ \A i \in 1..3 : ~IsZero(args[3][i])
    /\ FiniteMat(ret)
    /\ \A i \in 1..3 : Col(BodyAxes(args[1], args[2]), i) # Col(args[2], i)
    /\ ret = FKinBody(args[1], BodyAxes(args[1], args[2]), args[3])
    /\ ret # FKinBody(args[1], args[2], args[3])

\* C9: JacobianSpace(Slist, theta) is 6 x n; its first column is the first axis
\* unmodified, and its column i (i >= 1, 0-based) is
\* Adjoint(exp(S_0 theta_0) ... exp(S_i-1 theta_i-1)) S_i.
JacobianSpaceColumns ==
    fn = "JacobianSpace" =>
        /\ Rows(ret) = 6 /\ Cols(ret) = Len(args[2])
        /\ Col(ret, 1) = Col(args[1], 1)
        /\ \A i \in 2..Len(args[2]) :
              Col(ret, i) = MatVec(Adjoint(ExpProduct(args[1], args[2], 1, i - 1)),
                                   Col(args[1], i))

\* a third column for which the order of the partial product matters
JacobianSpaceWitness ==
    /\ fn = "JacobianSpace"
    /\ Len(args[2]) = 3
    /\ FiniteMat(ret)
    /\ Col(ret, 3) = MatVec(Adjoint(ExpProduct(args[1], args[2], 1, 2)), Col(args[1], 3))
    /\ Col(ret, 3) # MatVec(Adjoint(ExpProductDown(args[1], args[2], 2, 1)), Col(args[1], 3))
    /\ Col(ret, 3) # Col(args[1], 3)
    /\ Col(ret, 2) # Col(args[1], 2)

\* C10: JacobianBody(Blist, theta) is 6 x n; its last column is the last axis
\* unmodified, and its column i (i < n-1, 0-based) is
\* Adjoint(exp(-B_n-1 theta_n-1) ... exp(-B_i+1 theta_i+1)) B_i.
JacobianBodyColumns ==
    fn = "JacobianBody" =>
        /\ Rows(ret) = 6 /\ Cols(ret) = Len(args[2])
        /\ Col(ret, Len(args[2])) = Col(args[1], Len(args[2]))
        /\ \A i \in 1..(Len(args[2]) - 1) :
              Col(ret, i) = MatVec(Adjoint(ExpProductDown(args[1], VecNeg(args[2]),
                                                          Len(args[2]), i + 1)),
                                   Col(args[1], i))

\* a first column for which the order and the sign of the partial product matter
JacobianBodyWitness ==
    /\ fn = "JacobianBody"
    /\ Len(args[2]) = 3
    /\ FiniteMat(ret)
    /\ Col(ret, 1) = MatVec(Adjoint(ExpProductDown(args[1], VecNeg(args[2]), 3, 2)),
                            Col(args[1], 1))
    /\ Col(ret, 1) # MatVec(Adjoint(ExpProduct(args[1], VecNeg(args[2]), 2, 3)),
                            Col(args[1], 1))
    /\ Col(ret, 1) # MatVec(Adjoint(ExpProductDown(args[1], args[2], 3, 2)),
                            Col(args[1], 1))
    /\ Col(ret, 1) # Col(args[1], 1)

\* the pose error twist at thetalist: the log of TransInv(FK(thetalist)) T as a
\* 6-vector, mapped by Adjoint(FK(thetalist)) in the space form
PoseErrorOf(Tfk, T) == Let(MatMul(TransInv(Tfk), T), LAMBDA X : se3ToVec(MatrixLog6(X)))

PoseErrorBody(Blist, M, T, thetalist) ==
    Let(FKinBody(M, Blist, thetalist), LAMBDA Tfk : PoseErrorOf(Tfk, T))

PoseErrorSpace(Slist, M, T, thetalist) ==
    Let(FKinSpace(M, Slist, thetalist), LAMBDA Tfk :
    Let(PoseErrorOf(Tfk, T), LAMBDA Vb : MatVec(Adjoint(Tfk), Vb)))

\* the pose error of the call in args, at thetalist
PoseError(thetalist) ==
    IF fn = "IKinBody" THEN PoseErrorBody(args[1], args[2], args[3], thetalist)
    ELSE PoseErrorSpace(args[1], args[2], args[3], thetalist)

\* thetalist after one Newton update: thetalist + pinv(J(thetalist)) V(thetalist)
NewtonUpdate(thetalist) ==
    Let(PoseError(thetalist), LAMBDA V :
    Let(IF fn = "IKinBody" THEN JacobianBody(args[1], thetalist)
        ELSE JacobianSpace(args[1], thetalist), LAMBDA J :
        VecAdd(thetalist, BdcSvdSolve(J, V))))

\* the guess of the call in args after k Newton updates
RECURSIVE NewtonIterate(_)
NewtonIterate(k) ==
    IF k = 0 THEN args[4] ELSE Let(NewtonIterate(k - 1), LAMBDA th : NewtonUpdate(th))

\* the angular (k = 0) or linear (k = 3) part of the twist V has a norm above tol
PartAbove(V, k, tol) == NormAbove(Norm(<<V[k + 1], V[k + 2], V[k + 3]>>), tol)

\* norm() < tol, for a norm that is a number or the pair <<m, q>> of m * sqrt(q)
NormBelow(nrm, tol) ==
    IF IsSurd(nrm)
    THEN NGt(tol, Zero) /\ NLt(NMul(NMul(nrm[1], nrm[1]), nrm[2]), NMul(tol, tol))
    ELSE NLt(nrm, tol)

PartBelow(V, k, tol) == NormBelow(Norm(<<V[k + 1], V[k + 2], V[k + 3]>>), tol)

\* the pose error of the call in args at thetalist is above a tolerance
ErrorAbove(thetalist) ==
    Let(PoseError(thetalist), LAMBDA V :
        PartAbove(V, 0, args[5]) \/ PartAbove(V, 3, args[6]))

\* C11: IKinBody and IKinSpace make at most 20 Newton updates of thetalist and
\* return; thetalist is then the guess after the updates made, and when the
\* pose error after the 20th update is still above a tolerance the result is
\* false (and thetalist is the iterate of the 20th update).
IKinAtMostTwentyUpdates ==
    fn \in {"IKinBody", "IKinSpace"} =>
        /\ ret.i \in 0..20
        /\ ret.success \in BOOLEAN
        /\ Let(NewtonIterate(ret.i), LAMBDA th :
               /\ ret.thetalist = th
               /\ (ret.i = 20 /\ ErrorAbove(th)) => ret.success = FALSE)

\* IKinBody has made 20 updates that changed thetalist, a further update would
\* change it again, the error is still above the tolerance eomg, and the
\* result is false
IKinTwentyWitness ==
    /\ fn = "IKinBody"
    /\ ret.i = 20
    /\ ret.success = FALSE
    /\ ret.thetalist # args[4]
    /\ NewtonUpdate(ret.thetalist) # ret.thetalist
    /\ PartAbove(PoseError(ret.thetalist), 0, args[5])

\* C12: whenever IKinBody or IKinSpace returns true, the pose error twist at the
\* returned thetalist has an angular part of norm less than eomg and a linear
\* part of norm less than ev.
IKinSuccessBelowTolerance ==
    (fn \in {"IKinBody", "IKinSpace"} /\ ret.success) =>
        Let(PoseError(ret.thetalist), LAMBDA V :
            PartBelow(V, 0, args[5]) /\ PartBelow(V, 3, args[6]))

\* C13: GravityForces(theta, g), VelQuadraticForces(theta, dtheta) and
\* EndEffectorForces(theta, Ftip) are the results of InverseDynamics on the same
\* model with the other inputs zero: (theta, 0, 0, g, 0), (theta, dtheta, 0, 0, 0)
\* and (theta, 0, 0, 0, Ftip).
DerivedForcesAreInverseDynamics ==
    /\ fn = "GravityForces" =>
           ret = InverseDynamics(args[1], ZeroVec(Len(args[1])), ZeroVec(Len(args[1])),
                                 args[2], ZeroVec(6), args[3], args[4], args[5])
    /\ fn = "VelQuadraticForces" =>
           ret = InverseDynamics(args[1], args[2], ZeroVec(Len(args[1])),
                                 ZeroVec(3), ZeroVec(6), args[3], args[4], args[5])
    /\ fn = "EndEffectorForces" =>
           ret = InverseDynamics(args[1], ZeroVec(Len(args[1])), ZeroVec(Len(args[1])),
                                 ZeroVec(3), args[2], args[3], args[4], args[5])

\* GravityForces has returned forces that are not zero, for a chain of three
\* joints away from its home position, where joint rates equal to the angles
\* would change the result
DerivedForcesWitness ==
    /\ fn = "GravityForces"
    /\ Len(args[1]) = 3
    /\ args[1] # ZeroVec(3)
    /\ ret # ZeroVec(3)
    /\ ret # InverseDynamics(args[1], args[1], ZeroVec(3), args[2], ZeroVec(6),
                             args[3], args[4], args[5])

\* C14: MassMatrix(theta) is n x n and its column i is
\* InverseDynamics(theta, 0, e_i, 0, 0) on the same model, e_i being the unit
\* vector of joint i.
MassMatrixColumns ==
    fn = "MassMatrix" =>
        /\ Rows(ret) = Len(args[1])
        /\ Cols(ret) = Len(args[1])
        /\ \A i \in 1..Len(args[1]) :
               Col(ret, i) = InverseDynamics(args[1], ZeroVec(Len(args[1])),
                                 Vec(Len(args[1]), LAMBDA k : IF k = i THEN One ELSE Zero),
                                 ZeroVec(3), ZeroVec(6), args[2], args[3], args[4])

\* MassMatrix has returned a 3 x 3 matrix with an entry off the diagonal and
\* three different columns
MassMatrixWitness ==
    /\ fn = "MassMatrix"
    /\ Rows(ret) = 3
    /\ ret[1][2] # Zero
    /\ ret[2][2] # Zero
    /\ Col(ret, 1) # Col(ret, 2)
    /\ Col(ret, 2) # Col(ret, 3)

\* C15: ForwardDynamics inverts InverseDynamics: with the taulist that
\* InverseDynamics gives for ddthetalist (kept by the caller in args[9]),
\* ForwardDynamics returns ddthetalist.
ForwardInvertsInverse ==
    (/\ fn = "ForwardDynamics"
     /\ args[3] = InverseDynamics(args[1], args[2], args[9], args[4], args[5],
                                  args[6], args[7], args[8]))
        => ret = args[9]

\* ForwardDynamics has returned the accelerations of a chain of three joints
\* that moves under gravity and a wrench at the tip, from a taulist that would
\* give other accelerations without gravity
ForwardInverseWitness ==
    /\ fn = "ForwardDynamics"
    /\ Len(args[1]) = 3
    /\ args[2] # ZeroVec(3)
    /\ args[4] # ZeroVec(3)
    /\ args[5] # ZeroVec(6)
    /\ ret = args[9]
    /\ ret # ZeroVec(3)
    /\ GravityForces(args[1], args[4], args[6], args[7], args[8]) # ZeroVec(3)

\* A = A^T
IsSymmetric(A) ==
    /\ Rows(A) = Cols(A)
    /\ \A i \in 1..Rows(A) : \A j \in 1..Rows(A) : A[i][j] = A[j][i]

\* a symmetric A is positive-definite: its leading principal minors are positive
PositiveDefinite(A) ==
    \A k \in 1..Rows(A) : NGt(Det(Mat(k, k, LAMBDA i, j : A[i][j])), Zero)

\* a spatial inertia that is symmetric with a positive mass
MassiveInertia(G) == IsSymmetric(G) /\ NGt(G[4][4], Zero)

\* a spatial inertia [[I, 0], [0, m 1]] with I symmetric positive-definite, m > 0
SolidInertia(G) ==
    /\ G = SpatialInertia(Block3(G, 1, 1), G[4][4])
    /\ IsSymmetric(G)
    /\ PositiveDefinite(Block3(G, 1, 1))
    /\ NGt(G[4][4], Zero)

InverseDynamicsSuperposition ==
    fn = "InverseDynamics" =>
        Let(MatVec(MassMatrix(args[1], args[6], args[7], args[8]), args[3]), LAMBDA Mdd :
        Let(VelQuadraticForces(args[1], args[2], args[6], args[7], args[8]), LAMBDA c :
        Let(GravityForces(args[1], args[4], args[6], args[7], args[8]), LAMBDA grav :
        Let(EndEffectorForces(args[1], args[5], args[6], args[7], args[8]), LAMBDA JTFtip :
            ret = VecAdd(VecAdd(VecAdd(Mdd, c), grav), JTFtip)))))

\* InverseDynamics has returned the forces of a chain of three joints for which
\* none of the four terms is zero
SuperpositionWitness ==
    /\ fn = "InverseDynamics"
    /\ Len(args[1]) = 3
    /\ MatVec(MassMatrix(args[1], args[6], args[7], args[8]), args[3]) # ZeroVec(3)
    /\ VelQuadraticForces(args[1], args[2], args[6], args[7], args[8]) # ZeroVec(3)
    /\ GravityForces(args[1], args[4], args[6], args[7], args[8]) # ZeroVec(3)
    /\ EndEffectorForces(args[1], args[5], args[6], args[7], args[8]) # ZeroVec(3)
    /\ ret # ZeroVec(3)

\* C18: after EulerStep(theta, dtheta, ddtheta, dt), theta is the old theta plus
\* the old dtheta times dt, dtheta is the old dtheta plus ddtheta times dt, and
\* ddtheta is unchanged.
EulerStepExplicit ==
    fn = "EulerStep" =>
        /\ Len(ret.thetalist) = Len(args[1])
        /\ Len(ret.dthetalist) = Len(args[2])
        /\ \A i \in 1..Len(args[1]) :
               /\ ret.thetalist[i] = NAdd(args[1][i], NMul(args[2][i], args[4]))
               /\ ret.dthetalist[i] = NAdd(args[2][i], NMul(args[3][i], args[4]))
        /\ ret.ddthetalist = args[3]

\* EulerStep has moved a joint whose rate and acceleration are not zero: the
\* new angle is not the one the new rate would give
EulerStepWitness ==
    /\ fn = "EulerStep"
    /\ \E i \in 1..Len(args[1]) :
           /\ args[2][i] # Zero
           /\ args[3][i] # Zero
           /\ ret.thetalist[i] # args[1][i]
           /\ ret.dthetalist[i] # args[2][i]
           /\ ret.thetalist[i] # NAdd(args[1][i], NMul(ret.dthetalist[i], args[4]))

\* C19: CubicTimeScaling(Tf, t) is 3 r^2 - 2 r^3 and QuinticTimeScaling(Tf, t) is
\* 10 r^3 - 15 r^4 + 6 r^5 with r = t / Tf; for Tf > 0 both are 0 at t = 0 and
\* 1 at t = Tf.
TimeScalingValues ==
    (fn \in {"CubicTimeScaling", "QuinticTimeScaling"} /\ NGt(args[1], Zero)) =>
        Let(NDiv(args[2], args[1]), LAMBDA r :
            /\ fn = "CubicTimeScaling" =>
                   ret = NSub(NMul(Num(3), NMul(r, r)), NMul(Num(2), NMul(r, NMul(r, r))))
            /\ fn = "QuinticTimeScaling" =>
                   ret = NAdd(NSub(NMul(Num(10), NMul(r, NMul(r, r))),
                                   NMul(Num(15), NMul(NMul(r, r), NMul(r, r)))),
                              NMul(Num(6), NMul(NMul(r, r), NMul(r, NMul(r, r)))))
            /\ args[2] = Zero => ret = Zero
            /\ args[2] = args[1] => ret = One)

\* CubicTimeScaling has returned 1 at the end of a motion whose duration is not 1
TimeScalingWitness ==
    /\ fn = "CubicTimeScaling"
    /\ args[1] # One
    /\ args[2] = args[1]
    /\ ret = One

\* C20: for N > 1, Tf > 0 and method 3 or 5, JointTrajectory returns N rows, the
\* first thetastart and the last thetaend; ScrewTrajectory and
\* CartesianTrajectory return N transforms, the first Xstart and the last Xend.
TrajectoryEndpoints ==
    (/\ fn \in {"JointTrajectory", "ScrewTrajectory", "CartesianTrajectory"}
     /\ args[4] > 1
     /\ NGt(args[3], Zero)
     /\ args[5] \in {3, 5})
        => /\ Len(ret) = args[4]
           /\ ret[1] = args[1]
           /\ ret[args[4]] = args[2]

\* ScrewTrajectory has returned MaxSamples transforms from Xstart to an Xend with
\* another orientation and another position, and the second is not the first
TrajectoryWitness ==
    /\ fn = "ScrewTrajectory"
    /\ args[4] = MaxSamples
    /\ Block3(args[1], 1, 1) # Block3(args[2], 1, 1)
    /\ Pos(args[1]) # Pos(args[2])
    /\ Len(ret) = MaxSamples
    /\ ret[1] = args[1]
    /\ ret[2] # ret[1]
    /\ ret[MaxSamples] = args[2]

\* the Frobenius norm of M^T M - I
GramError(M) == MatNorm(MatSub(MatMul(Transpose(M), M), Identity(Rows(M))))

\* the top-left 3x3 block of a 4x4 matrix
RotBlock(T) == Block3(T, 1, 1)

\* the Frobenius norm of M^T M - I for the block of T, together with the
\* entries of T's last row less (0, 0, 0, 1)
PoseGramError(T) ==
    Norm(Flatten(MatSub(MatMul(Transpose(RotBlock(T)), RotBlock(T)), Identity(3)))
             \o VecSub(T[4], <<Zero, Zero, Zero, One>>))

\* d < 1e-3, for d a number or the pair <<m, q>> of m * sqrt(q)
BelowThreshold(d) ==
    IF IsSurd(d)
    THEN NLt(d[1], Rat(1, 1000))
         /\ NLt(d[2], NMul(NDiv(Rat(1, 1000), d[1]), NDiv(Rat(1, 1000), d[1])))
    ELSE NLt(d, Rat(1, 1000))

\* C21: a 3x3 matrix with a determinant <= 0, and a 4x4 matrix whose top-left
\* block has a determinant <= 0, have the distance 1e9 (which is >= 1e8) and
\* fail the membership test; with a positive determinant DistanceToSO3 is the
\* Frobenius norm of M^T M - I, DistanceToSE3 is that norm for the block taken
\* together with the last row's difference from (0, 0, 0, 1), hence the norm
\* for the block when the last row is (0, 0, 0, 1), and a test is true exactly
\* when the distance is below 1e-3.
SentinelOffManifold ==
    /\ fn = "DistanceToSO3" =>
          IF NLe(Det(args[1]), Zero)
          THEN ret = Num(1000000000) /\ NGe(ret, Num(100000000))
          ELSE ret = GramError(args[1])
    /\ fn = "TestIfSO3" =>
          IF NLe(Det(args[1]), Zero)
          THEN ret = FALSE
          ELSE ret = BelowThreshold(GramError(args[1]))
    /\ fn = "DistanceToSE3" =>
          IF NLe(Det(RotBlock(args[1])), Zero)
          THEN ret = Num(1000000000) /\ NGe(ret, Num(100000000))
          ELSE /\ ret = PoseGramError(args[1])
               /\ args[1][4] = <<Zero, Zero, Zero, One>> => ret = GramError(RotBlock(args[1]))
    /\ fn = "TestIfSE3" =>
          IF NLe(Det(RotBlock(args[1])), Zero)
          THEN ret = FALSE
          ELSE ret = BelowThreshold(PoseGramError(args[1]))

\* a reflection, whose M^T M - I is zero and whose determinant is -1, has
\* failed the test of SE(3)
SentinelWitness ==
    /\ fn = "TestIfSE3"
    /\ NLt(Det(RotBlock(args[1])), Zero)
    /\ IsZero(PoseGramError(args[1]))
    /\ ret = FALSE

\* Kp e + Ki x + Kd (dthetalistd - dthetalist) for the call of ComputedTorque
\* in args, e being thetalistd - thetalist
PidSum(x) ==
    VecAdd(VecAdd(VecScale(args[11], VecSub(args[8], args[1])), VecScale(args[12], x)),
           VecScale(args[13], VecSub(args[9], args[2])))

\* MassMatrix(thetalist) a + InverseDynamics(thetalist, dthetalist, ddthetalistd)
\* without a wrench, on the model of the call of ComputedTorque in args
TorqueFor(a) ==
    VecAdd(MatVec(MassMatrix(args[1], args[5], args[6], args[7]), a),
           InverseDynamics(args[1], args[2], args[10], args[4], ZeroVec(6),
                           args[5], args[6], args[7]))

\* C22: ComputedTorque returns MassMatrix(theta) (Kp e + Ki eint + Kd (dtheta_d -
\* dtheta)) + InverseDynamics(theta, dtheta, ddtheta_d, g, Ftip = 0) on the
\* controller's model, with e = theta_d - theta and eint the integral passed in.
ComputedTorqueIsPidLaw ==
    fn = "ComputedTorque" => ret = TorqueFor(PidSum(args[3]))

\* the state reached from (theta, dtheta) by k substeps of the size h, each
\* ForwardDynamics with row i of taumat and of Ftipmat of the call in args
\* followed by EulerStep
RECURSIVE Reached(_, _, _, _, _)
Reached(theta, dtheta, i, h, k) ==
    IF k = 0 THEN <<theta, dtheta>>
    ELSE Let(Reached(theta, dtheta, i, h, k - 1), LAMBDA s :
         Let(ForwardDynamics(s[1], s[2], args[3][i], args[4], args[5][i],
                             args[6], args[7], args[8]), LAMBDA dd :
             <<VecAdd(s[1], VecScale(h, s[2])), VecAdd(s[2], VecScale(h, dd))>>))

\* C23: ForwardDynamicsTrajectory returns thetamat and dthetamat with one row
\* for each row of taumat; the first rows are the given thetalist and
\* dthetalist, and every next row is the state reached from the row before it
\* by exactly intRes substeps of ForwardDynamics and EulerStep of the size
\* dt / intRes, all with that earlier row of taumat and Ftipmat.
TrajectoryRowsBySubsteps ==
    fn = "ForwardDynamicsTrajectory" =>
        /\ Len(ret) = 2
        /\ Len(ret[1]) = Rows(args[3]) /\ Len(ret[2]) = Rows(args[3])
        /\ ret[1][1] = args[1] /\ ret[2][1] = args[2]
        /\ \A i \in 1..(Rows(args[3]) - 1) :
               <<ret[1][i + 1], ret[2][i + 1]>> =
                   Reached(ret[1][i], ret[2][i], i, NDiv(args[9], Num(args[10])), args[10])

\* a trajectory of MaxRows rows, each integrated by two substeps, whose rows
\* are numbers of the model and leave the caller's plan
TrajectoryRowsWitness ==
    /\ fn = "ForwardDynamicsTrajectory"
    /\ Rows(args[3]) = MaxRows
    /\ args[10] = 2
    /\ FiniteMat(ret[1]) /\ FiniteMat(ret[2])
    /\ ret[2][MaxRows] # ret[2][1]
    /\ ret[1][MaxRows] # JointsAt(args[8], MaxRows - 1)

\* the angle of the rotation R is zero, and a half turn
NoRotation(R) == NGe(NDiv(NSub(Trace(R), One), Num(2)), One)

ByHalfTurn(R) == NLe(NDiv(NSub(Trace(R), One), Num(2)), Num(-1))

\* C24: the exponential of the logarithm is the argument: MatrixExp3 of
\* MatrixLog3(R) is R for a rotation R and MatrixExp6 of MatrixLog6(T) is T
\* for a rigid motion T, rotations by zero and by a half turn included.
ExpOfLogIsIdentity ==
    /\ fn = "MatrixLog3" => MatrixExp3(ret) = args[1]
    /\ fn = "MatrixLog6" => MatrixExp6(ret) = args[1]

\* the logarithm of a rigid motion has been taken whose rotation is a half
\* turn about an axis off the coordinate axes and whose translation is not zero
ExpOfLogWitness ==
    /\ fn = "MatrixLog6"
    /\ ByHalfTurn(RotBlock(args[1]))
    /\ \A k \in 1..3 : args[1][k][k] # One
    /\ Pos(args[1]) # <<Zero, Zero, Zero>>
    /\ FiniteMat(ret)
    /\ MatrixExp6(ret) = args[1]

\* the diagonal term 1 + R(k, k) of I + R
DiagTerm(R, k) == NAdd(One, R[k][k])

\* the logarithm of a half turn R whose axis comes from the diagonal term k:
\* pi times column k of I + R divided by sqrt(2 (1 + R(k, k)))
LogFromTerm(R, k) ==
    VecToso3(VecScale(QuarterTurns(2),
                      VecDivScalar(Vec(3, LAMBDA i : IF i = k THEN DiagTerm(R, k) ELSE R[i][k]),
                                   NSqrt(NMul(Num(2), DiagTerm(R, k))))))

\* the first of 1 + R(2,2), 1 + R(1,1), 1 + R(0,0) that is not negligible, and
\* the last of them when the first two are
FirstTerm(R) ==
    IF ~NLt(NAbs(DiagTerm(R, 3)), Rat(1, 1000000)) THEN 3
    ELSE IF ~NLt(NAbs(DiagTerm(R, 2)), Rat(1, 1000000)) THEN 2
    ELSE 1

\* the diagonal terms of the largest magnitude
LargestTerms(R) ==
    {k \in 1..3 : \A j \in 1..3 : NGe(NAbs(DiagTerm(R, k)), NAbs(DiagTerm(R, j)))}

\* C25 as stated: for a rotation by a half turn, MatrixLog3 computes the axis
\* with the diagonal term of I + R of the largest magnitude as the divisor.
LogAxisFromLargestTerm ==
    (fn = "MatrixLog3" /\ ByHalfTurn(args[1])) =>
        \E k \in LargestTerms(args[1]) : ret = LogFromTerm(args[1], k)

\* C25: for a rotation by a half turn, MatrixLog3 computes the axis with the
\* first of 1 + R(2,2), 1 + R(1,1), 1 + R(0,0), in this order, that is not
\* negligible as the divisor (the last when the first two are negligible),
\* whether or not it is the largest of the three.
LogAxisFromFirstTerm ==
    (fn = "MatrixLog3" /\ ByHalfTurn(args[1])) =>
        ret = LogFromTerm(args[1], FirstTerm(args[1]))

\* the logarithm of a half turn has been taken whose first term that is not
\* negligible is not the largest, and the largest term gives another result
LogAxisWitness ==
    /\ fn = "MatrixLog3"
    /\ ByHalfTurn(args[1])
    /\ FirstTerm(args[1]) \notin LargestTerms(args[1])
    /\ FiniteMat(ret)
    /\ ret = LogFromTerm(args[1], FirstTerm(args[1]))
    /\ \A k \in LargestTerms(args[1]) : ret # LogFromTerm(args[1], k)

\* a norm is negligible: below 1e-6
Negligible(v) == NearZero(Norm(v))

\* the call in fn and args is one of the degenerate cases: no rotation in an
\* exponential or a logarithm, a half turn in MatrixLog3, a negligible angular
\* part in the axis-angle forms
DegenerateCall ==
    \/ fn = "MatrixExp3" /\ NearZero(MatNorm(args[1]))
    \/ fn = "MatrixExp6" /\ Negligible(so3ToVec(RotBlock(args[1])))
    \/ fn = "MatrixLog3" /\ (NoRotation(args[1]) \/ ByHalfTurn(args[1]))
    \/ fn = "MatrixLog6" /\ NoRotation(RotBlock(args[1]))
    \/ fn = "AxisAng3" /\ Negligible(args[1])
    \/ fn = "AxisAng6" /\ Negligible(<<args[1][1], args[1][2], args[1][3]>>)

\* every entry of a vector or of a matrix is a finite number
Defined(r) ==
    \A i \in 1..Len(r) :
        IF Len(r[i]) = 6 /\ r[i][1] \in Int THEN IsFinite(r[i])
        ELSE \A j \in 1..Len(r[i]) : IsFinite(r[i][j])

\* C28: every degenerate case ends in a defined result: without rotation in
\* MatrixExp3, MatrixExp6, MatrixLog3 and MatrixLog6, with a half turn in
\* MatrixLog3, and with a negligible angular part (and linear part) in AxisAng3
\* and AxisAng6, the zero vector included.
DegenerateCasesDefined == DegenerateCall => Defined(ret)


\* C26 as stated: MassMatrix makes n^2 calls of InverseDynamics in total.
MassMatrixCallsSquare ==
    fn = "MassMatrix" => Len(ret[2]) = Len(args[1]) * Len(args[1])

\* C26: MassMatrix makes n calls of InverseDynamics in total, one for every
\* column: call i has zero joint rates, the unit accelerations of joint i, no
\* gravity and no wrench at the tip, and its result is column i of the
\* matrix.
MassMatrixCallsLinear ==
    fn = "MassMatrix" =>
        /\ Len(ret[2]) = Len(args[1])
        /\ \A i \in 1..Len(ret[2]) :
              /\ ret[2][i][2] = ZeroVec(Len(args[1]))
              /\ ret[2][i][3] = Vec(Len(args[1]), LAMBDA j : IF j = i THEN One ELSE Zero)
              /\ InverseDynamics(ret[2][i][1], ret[2][i][2], ret[2][i][3], ret[2][i][4],
                                 ret[2][i][5], ret[2][i][6], ret[2][i][7], ret[2][i][8])
                 = Col(ret[1], i)

\* MassMatrix of a chain of three joints has returned after three calls
MassMatrixCallsWitness ==
    /\ fn = "MassMatrix"
    /\ Len(args[1]) = 3
    /\ Len(ret[2]) = 3
    /\ ret[1][1][2] # Zero


\* the plant after k substeps of the size h from theta, dtheta with the torque
\* tau, on the plant model and row i of Ftipmat of the call of SimulateControl
RECURSIVE Advanced(_, _, _, _, _, _)
Advanced(theta, dtheta, tau, i, h, k) ==
    IF k = 0 THEN <<theta, dtheta>>
    ELSE Let(Advanced(theta, dtheta, tau, i, h, k - 1), LAMBDA s :
         Let(ForwardDynamics(s[1], s[2], tau, args[3], args[4][i],
                             args[5], args[6], args[7]), LAMBDA dd :
             <<VecAdd(s[1], VecScale(h, s[2])), VecAdd(s[2], VecScale(h, dd))>>))

\* the torque of sample i at the plant state s = (theta, dtheta, eint), from
\* the controller's model
Commanded(s, i) ==
    ComputedTorque(s[1], s[2], s[3], args[11], args[12], args[13], args[7],
                   args[8][i], args[9][i], args[10][i], args[14], args[15], args[16])

\* the plant state and the integral of the error after the samples 1..i
RECURSIVE Controlled(_)
Controlled(i) ==
    IF i = 0 THEN <<args[1], args[2], ZeroVec(Len(args[1]))>>
    ELSE Let(Controlled(i - 1), LAMBDA s :
         Let(Advanced(s[1], s[2], Commanded(s, i), i,
                      NDiv(args[17], Num(args[18])), args[18]), LAMBDA p :
             <<p[1], p[2],
               VecAdd(s[3], VecScale(args[17], VecSub(args[8][i], p[1])))>>))

\* C27: SimulateControl takes the samples in order and returns taumat and
\* thetamat with one row for each of them.  Row i of taumat is the torque
\* that ComputedTorque gives once for the plant state and the integral of the
\* error before sample i, on the controller's model gtilde, Mtildelist,
\* Gtildelist; row i of thetamat is the joint angles after exactly intRes
\* substeps of ForwardDynamics and EulerStep of the size dt / intRes with that
\* torque, on the plant model g, Mlist, Glist and row i of Ftipmat; the
\* integral of the error grows by dt (thetad(i) - theta) with these angles
\* only after the substeps.
SimulateControlStepOrder ==
    fn = "SimulateControl" =>
        /\ Len(ret) = 2
        /\ Len(ret[1]) = Rows(args[8]) /\ Len(ret[2]) = Rows(args[8])
        /\ \A i \in 1..Rows(args[8]) :
              Let(Controlled(i - 1), LAMBDA s :
                  /\ ret[1][i] = Commanded(s, i)
                  /\ ret[2][i] = Advanced(s[1], s[2], ret[1][i], i,
                                          NDiv(args[17], Num(args[18])), args[18])[1])

\* a simulation of MaxRows samples of two substeps each, with a controller
\* model that is not the plant's and an integral gain, whose rows are numbers
\* of the model and leave the planned motion
SimulateControlWitness ==
    /\ fn = "SimulateControl"
    /\ Rows(args[8]) = MaxRows
    /\ args[18] = 2
    /\ args[11] # args[3] /\ args[13] # args[6]
    /\ args[15] # Zero
    /\ FiniteMat(ret[1]) /\ FiniteMat(ret[2])
    /\ ret[2][MaxRows] # args[8][MaxRows]
    /\ ret[1][MaxRows] # ret[1][1]


OtherAngles == {QuarterTurns(k) : k \in -2..(MaxTurns + 1)} \cup {One, Rat(-1, 3)}

\* thetaList with x as the angle of joint k
WithAngle(thetaList, k, x) == Vec(Len(thetaList), LAMBDA i : IF i = k THEN x ELSE thetaList[i])

\* C30: the space Jacobian does not depend on the last joint angle and the
\* body Jacobian does not depend on the first one: a call of JacobianSpace
\* with any other last entry of thetaList, and a call of JacobianBody with any
\* other first entry, returns the same matrix.
JacobianIgnoresEndAngle ==
    /\ fn = "JacobianSpace" =>
           \A x \in OtherAngles :
               JacobianSpace(args[1], WithAngle(args[2], Len(args[2]), x)) = ret
    /\ fn = "JacobianBody" =>
           \A x \in OtherAngles : JacobianBody(args[1], WithAngle(args[2], 1, x)) = ret

\* JacobianBody has returned the Jacobian of a chain of three joints, which
\* changes with the second angle and not with the first
JacobianEndAngleWitness ==
    /\ fn = "JacobianBody"
    /\ Len(args[2]) = 3
    /\ FiniteMat(ret)
    /\ args[2][1] # Zero
    /\ JacobianBody(args[1], WithAngle(args[2], 1, Zero)) = ret
    /\ JacobianBody(args[1], WithAngle(args[2], 2, NAdd(args[2][2], QuarterTurns(1)))) # ret

====
